---- MODULE Spec2Model ----
(***************************************************************************)
(* The tool bridge of mcp-run-python: the guest side that installs tool    *)
(* functions in the interpreter's namespace and turns a call into an       *)
(* elicitation message (deno/src/tool_injection.py), and the host side     *)
(* that answers elicitation messages (ext/pydantic_ai.py).                 *)
(*                                                                         *)
(* Python values are modelled as follows.                                  *)
(*   - a str built by an f-string is the sequence of its pieces, so that   *)
(*     "the text contains s" is "s is an infix of the sequence";           *)
(*   - a dict is a function from keys to values;                           *)
(*   - the outcome of a call is [kind |-> "return", value |-> v] or        *)
(*     [kind |-> "raise", exc |-> [type |-> T, msg |-> text]];             *)
(*   - a JSON text is [ok |-> TRUE, val |-> the value it encodes], a text  *)
(*     that is not JSON is [ok |-> FALSE, ...].                            *)
(***************************************************************************)
EXTENDS Integers, Sequences, FiniteSets, TLC

VARIABLES
    globals_dict,   \* the guest namespace: identifier -> bound object
    last,           \* the most recent operation: its inputs and its outcome
    guest,          \* one guest execution, step by step: where its thread is
                    \* and what is on the elicitation channel
    callback,       \* the closure create_tool_elicitation_callback returned:
                    \* its shared run context, and the request it is serving
    sandboxes       \* the open sandboxes: sandbox -> its process's state

vars == <<globals_dict, last, guest, callback, sandboxes>>

\* the host side outside the bridge
rest == <<callback, sandboxes>>

\* no callback has been created and no sandbox is open
NoCallback == [constructed |-> 0]
Idle == callback = NoCallback /\ sandboxes = <<>>

(***************************************************************************)
(* Bounds of the model.                                                    *)
(***************************************************************************)
MaxArgs == 2        \* positional arguments of one guest call
MaxTools == 2       \* length of the tool list of one installation
MaxCalls == 3       \* tool calls of one guest execution
MaxRequests == 2    \* code-execution requests one callback or sandbox serves

(***************************************************************************)
(* Outcomes and texts.                                                     *)
(***************************************************************************)
Return(v) == [kind |-> "return", value |-> v]
Raise(type, msg) == [kind |-> "raise", exc |-> [type |-> type, msg |-> msg]]

\* s occurs in the text t
IsInfix(s, t) ==
    \E i \in 0..(Len(t) - Len(s)) : SubSeq(t, i + 1, i + Len(s)) = s

\* {**base, **over}: the keys of over win
Merge(base, over) ==
    [k \in (DOMAIN base) \cup (DOMAIN over) |->
        IF k \in DOMAIN over THEN over[k] ELSE base[k]]

(***************************************************************************)
(* Guest values passed to a tool function: a scalar, or a dict of scalars. *)
(***************************************************************************)
Scalar(s) == [isdict |-> FALSE, val |-> s, map |-> <<>>]
DictVal(m) == [isdict |-> TRUE, val |-> "", map |-> m]

(***************************************************************************)
(* A tool schema: its top-level keys and, in declaration order, the names  *)
(* of its properties.  The empty schema {} is falsy in Python.             *)
(***************************************************************************)
SchemaOf(props) == [keys |-> {"type", "properties"}, properties |-> props]
SchemaNoProperties == [keys |-> {"type"}, properties |-> <<>>]
SchemaEmpty == [keys |-> {}, properties |-> <<>>]

(***************************************************************************)
(* _create_tool_call_part: schema-aware binding of the arguments.          *)
(***************************************************************************)
\* dict(zip(param_names, args))
ZipDict(param_names, args) ==
    LET n == IF Len(args) < Len(param_names) THEN Len(args) ELSE Len(param_names)
    IN  [k \in {param_names[i] : i \in 1..n} |->
            args[CHOOSE i \in 1..n : param_names[i] = k]]

\* a plausible slip in the surplus test: zip() silently truncates instead
too_many_positionals_never(args, param_names) == FALSE

\* len(args) > len(param_names)
too_many_positionals(args, param_names) == Len(args) > Len(param_names)

\* a plausible slip in the single-positional branch: a dict is bound to the
\* first property like any other value
bind_single_positional_no_dict_merge(properties, first_arg, kwargs) ==
    Merge((properties[1] :> first_arg), kwargs)

\* the branch for one positional argument and a non-empty properties mapping
bind_single_positional(properties, first_arg, kwargs) ==
    LET first_param_name == properties[1]
    IN  IF first_arg.isdict
        THEN Merge(first_arg.map, kwargs)                       \* {**first_arg, **kwargs}
        ELSE Merge((first_param_name :> first_arg), kwargs)     \* {first_param_name: first_arg, **kwargs}

\* a plausible slip in the last branch: the positional value wins over the keyword
bind_positionals_positional_wins(param_names, args, kwargs) ==
    Merge(kwargs, ZipDict(param_names, args))

\* tool_args = dict(zip(param_names, args)); tool_args.update(kwargs)
bind_positionals(param_names, args, kwargs) ==
    Merge(ZipDict(param_names, args), kwargs)

create_tool_call_part(tool_name, args, kwargs, tool_schema, uuid4) ==
    IF "properties" \notin tool_schema.keys
    THEN Raise("ValueError", <<"Tool '", tool_name, "' schema missing 'properties' field">>)
    ELSE
    LET properties == tool_schema.properties
        part(tool_args) ==
            [tool_name |-> tool_name, tool_call_id |-> uuid4, args |-> tool_args]
    IN  IF Len(args) = 0
        THEN Return(part(kwargs))                               \* kwargs.copy()
        ELSE IF Len(args) = 1 /\ Len(properties) > 0
        THEN Return(part(bind_single_positional(properties, args[1], kwargs)))
        ELSE IF too_many_positionals(args, properties)
        THEN Raise("ValueError",
                   <<"Tool '", tool_name, "' received ", ToString(Len(args)),
                     " positional args but only has ", ToString(Len(properties)),
                     " parameters">>)
        ELSE Return(part(bind_positionals(properties, args, kwargs)))

(***************************************************************************)
(* The inputs the marshalling is applied to.                               *)
(***************************************************************************)
UUIDs == {"uuid-1", "uuid-2"}

ArgValues ==
    { Scalar("paris"), Scalar("1"),
      DictVal([a |-> Scalar("1"), x |-> Scalar("9")]) }

ArgTuples == UNION { [1..n -> ArgValues] : n \in 0..MaxArgs }

KeywordArgs ==
    { <<>>, [b |-> Scalar("2")], [x |-> Scalar("7")], [y |-> Scalar("7")],
      [city |-> Scalar("rome")] }

BindSchemas ==
    { SchemaNoProperties, SchemaOf(<<>>), SchemaOf(<<"city">>), SchemaOf(<<"x", "y">>) }

(***************************************************************************)
(* Marshalling on its own: one step applies _create_tool_call_part.        *)
(***************************************************************************)
NoOp == [op |-> "none"]

\* the guest execution before its code has called a tool
NotStarted ==
    [pc |-> "running", calls |-> 0, outstanding |-> <<>>, replies |-> <<>>,
     consumed |-> <<>>, invocations |-> <<>>, executions |-> <<>>,
     current |-> NoOp, outcome |-> NoOp]

Marshal(args, kwargs, tool_schema, uuid4) ==
    /\ last' = [op |-> "marshal", tool_name |-> "get-weather", args |-> args,
                kwargs |-> kwargs, tool_schema |-> tool_schema,
                out |-> create_tool_call_part("get-weather", args, kwargs,
                                              tool_schema, uuid4)]
    /\ UNCHANGED <<globals_dict, guest>>
    /\ UNCHANGED rest

InitBind == globals_dict = <<>> /\ last = NoOp /\ guest = NotStarted /\ Idle

NextBind ==
    \E args \in ArgTuples, kwargs \in KeywordArgs,
       tool_schema \in BindSchemas, uuid4 \in UUIDs :
        Marshal(args, kwargs, tool_schema, uuid4)

SpecBind == InitBind /\ [][NextBind]_vars

(***************************************************************************)
(* JSON.  json.dumps gives the text of a value, json.loads the value of a  *)
(* text; a tuple is written as a list, and an arbitrary object cannot be   *)
(* written at all.                                                         *)
(***************************************************************************)
JsonText(v) == [ok |-> TRUE, val |-> v]
NotJsonText == [ok |-> FALSE, val |-> [isobject |-> FALSE, obj |-> <<>>]]

\* a plausible slip: a lenient parser that gives a value for every text
json_loads_lenient(text) == Return(text.val)

json_loads(text) ==
    IF text.ok
    THEN Return(text.val)
    ELSE Raise("JSONDecodeError", <<"Expecting value: line 1 column 1 (char 0)">>)

\* json.dumps of a dict of strings, lists and dicts: always possible
json_dumps(v) == JsonText(v)

\* values a tool can return
PyStr(s) == [t |-> "str", v |-> <<s>>]
PyInt(s) == [t |-> "int", v |-> <<s>>]
PyList(items) == [t |-> "list", v |-> items]
PyTuple(items) == [t |-> "tuple", v |-> items]
PyObject == [t |-> "object", v |-> <<>>]

\* json.dumps(result)
json_dumps_result(result) ==
    IF result.t = "object"
    THEN Raise("TypeError", <<"Object of type object is not JSON serializable">>)
    ELSE Return(JsonText(IF result.t = "tuple" THEN PyList(result.v) ELSE result))

(***************************************************************************)
(* The parsed elicitation message: a JSON object with some of the keys     *)
(* action, tool_name, tool_call_id, args, or a JSON value of another kind. *)
(***************************************************************************)
JsonObject(obj) == [isobject |-> TRUE, obj |-> obj]
JsonNonObject == [isobject |-> FALSE, obj |-> <<>>]

TOOL_DISCOVERY_ACTION == "discover_tools"

ElicitResult(action, content) == [action |-> action, content |-> content]

(***************************************************************************)
(* The host's tool registry and tool layer (pydantic_ai): what get_tools   *)
(* gives and what handle_call does are the environment's choice.           *)
(***************************************************************************)
HostToolNames == {"get-weather", "send-email"}

parameters_json_schema(tool_name) ==
    IF tool_name = "get-weather" THEN SchemaOf(<<"city">>)
    ELSE SchemaOf(<<"to", "body">>)

Toolsets == { [n \in S |-> parameters_json_schema(n)] : S \in SUBSET HostToolNames }

GetToolsOutcomes ==
    { Return(available_tools) : available_tools \in Toolsets }
        \cup { Raise("UserError", <<"toolset is not entered">>) }

ToolResults ==
    { PyStr("sunny"), PyInt("42"), PyList(<<"1", "2">>), PyTuple(<<"1", "2">>), PyObject }

ToolBehaviours ==
    { [kind |-> "return", value |-> v, text |-> <<>>] : v \in ToolResults }
        \cup { [kind |-> "retry", value |-> PyStr(""), text |-> <<"address is not valid">>],
               [kind |-> "model_retry", value |-> PyStr(""), text |-> <<"try again">>],
               [kind |-> "error", value |-> PyStr(""), text |-> <<"connection lost">>] }

ToolRetryError(tool_name, content, tool_call_id) ==
    [kind |-> "raise",
     exc |-> [type |-> "ToolRetryError", msg |-> content,
              tool_retry |-> [tool_name |-> tool_name, content |-> content,
                              tool_call_id |-> tool_call_id]]]

\* tool_manager.handle_call(call=tool_call): the outcome and whether the tool ran
handle_call(available_tools, tool_call, behaviour) ==
    IF tool_call.tool_name \notin DOMAIN available_tools
    THEN [out |-> ToolRetryError(tool_call.tool_name,
                                 <<"Unknown tool name: ", tool_call.tool_name>>,
                                 tool_call.tool_call_id),
          executed |-> FALSE]
    ELSE [out |-> CASE behaviour.kind = "return" -> Return(behaviour.value)
                    [] behaviour.kind = "retry" ->
                          ToolRetryError(tool_call.tool_name, behaviour.text,
                                         tool_call.tool_call_id)
                    [] behaviour.kind = "model_retry" -> Raise("ModelRetry", behaviour.text)
                    [] OTHER -> Raise("RuntimeError", behaviour.text),
          executed |-> TRUE]

(***************************************************************************)
(* elicitation_callback of create_tool_elicitation_callback.               *)
(***************************************************************************)
\* a plausible slip: tool_name is optional too, with the empty name as default
validate_python_lenient(data) ==
    Return([tool_name |-> IF "tool_name" \in DOMAIN data.obj
                          THEN data.obj["tool_name"] ELSE "",
            tool_call_id |-> IF "tool_call_id" \in DOMAIN data.obj
                             THEN data.obj["tool_call_id"]
                             ELSE "pyd_ai_generated",
            args |-> IF "args" \in DOMAIN data.obj
                     THEN data.obj["args"] ELSE <<>>])

\* tool_call_adapter.validate_python(data): tool_name is the required field
validate_python(data) ==
    IF "tool_name" \in DOMAIN data.obj
    THEN Return([tool_name |-> data.obj["tool_name"],
                 tool_call_id |-> IF "tool_call_id" \in DOMAIN data.obj
                                  THEN data.obj["tool_call_id"]
                                  ELSE "pyd_ai_generated",
                 args |-> IF "args" \in DOMAIN data.obj
                          THEN data.obj["args"] ELSE <<>>])
    ELSE Raise("ValidationError", <<"1 validation error for ToolCallPart">>)

RECURSIVE SetToSeq(_)
SetToSeq(S) ==
    IF S = {} THEN <<>>
    ELSE LET x == CHOOSE y \in S : TRUE IN <<x>> \o SetToSeq(S \ {x})

\* a plausible slip: the schemas of the tools without parameters are left out
discovery_result_partial(available_tools) ==
    [tool_names |-> SetToSeq(DOMAIN available_tools),
     tool_schemas |->
        [n \in {m \in DOMAIN available_tools :
                    Len(available_tools[m].properties) = 1} |-> available_tools[n]]]

\* {'tool_names': list(available_tools.keys()), 'tool_schemas': {...}}
discovery_result(available_tools) ==
    [tool_names |-> SetToSeq(DOMAIN available_tools),
     tool_schemas |-> [n \in DOMAIN available_tools |-> available_tools[n]]]

\* a plausible slip: the retry information is sent as a plain error text
retry_content_as_error(tool_retry) ==
    ("error" :> (<<"Tool retry needed: ">> \o tool_retry.content))

\* a plausible slip: the Decline for a retry is sent without its content
retry_content_empty(tool_retry) == <<>>

\* the content of the Decline for a ToolRetryError
retry_content(tool_retry) ==
    ("retry" :> json_dumps([error |-> "Tool retry needed",
                            tool_name |-> tool_retry.tool_name,
                            message |-> tool_retry.content,
                            tool_call_id |-> tool_retry.tool_call_id]))

\* a plausible slip: the last handler names the errors it expects
catches_exception_listed(type) == type \in {"RuntimeError", "TypeError", "UserError"}

\* except Exception: every error the registry, the tool layer or the
\* callback's own statements raise derives from Exception
catches_exception(type) == TRUE

\* the body of the outer try
callback_try_body(message, get_tools, behaviour) ==
    LET parsed == json_loads(message)
        data == parsed.value
        out(o) == [out |-> o, queried |-> FALSE, executed |-> FALSE]
    IN
    IF parsed.kind = "raise"
    THEN out(Return(ElicitResult("decline",
                ("error" :> (<<"Invalid JSON: ">> \o parsed.exc.msg)))))
    ELSE IF ~data.isobject
    THEN \* data.get on a list, a number or a string
         out(Raise("AttributeError", <<"object has no attribute 'get'">>))
    ELSE IF "action" \in DOMAIN data.obj /\ data.obj["action"] = TOOL_DISCOVERY_ACTION
    THEN [out |->
            IF get_tools.kind = "raise"
            THEN Return(ElicitResult("decline",
                    ("error" :> (<<"Tool discovery failed: ">> \o get_tools.exc.msg))))
            ELSE Return(ElicitResult("accept",
                    ("data" :> json_dumps(discovery_result(get_tools.value))))),
          queried |-> TRUE, executed |-> FALSE]
    ELSE LET validated == validate_python(data) IN
    IF validated.kind = "raise"
    THEN out(Return(ElicitResult("decline",
                ("error" :> (<<"Invalid tool call: ">> \o validated.exc.msg)))))
    ELSE IF get_tools.kind = "raise"
    THEN \* ToolManager(toolset).for_run_step(ctx) asks the toolset for its tools
         [out |-> get_tools, queried |-> TRUE, executed |-> FALSE]
    ELSE LET handled == handle_call(get_tools.value, validated.value, behaviour)
             dumped == json_dumps_result(handled.out.value)
         IN  [out |-> IF handled.out.kind = "raise" THEN handled.out
                      ELSE IF dumped.kind = "raise" THEN dumped
                      ELSE Return(ElicitResult("accept", ("result" :> dumped.value))),
              queried |-> TRUE, executed |-> handled.executed]

\* the except clauses of the outer try
callback_except(exc) ==
    IF exc.type = "ToolRetryError"
    THEN Return(ElicitResult("decline", retry_content(exc.tool_retry)))
    ELSE IF exc.type = "ModelRetry"
    THEN Return(ElicitResult("decline",
                ("error" :> (<<"Model retry failed: ">> \o exc.msg))))
    ELSE IF catches_exception(exc.type)
    THEN Return(ElicitResult("decline",
                ("error" :> (<<"Unexpected error: ">> \o exc.msg))))
    ELSE [kind |-> "raise", exc |-> exc]

elicitation_callback(message, get_tools, behaviour) ==
    LET body == callback_try_body(message, get_tools, behaviour)
    IN  IF body.out.kind = "return"
        THEN [out |-> body.out, queried |-> body.queried, executed |-> body.executed,
              failure |-> [type |-> "none"]]
        ELSE [out |-> callback_except(body.out.exc), queried |-> body.queried,
              executed |-> body.executed, failure |-> body.out.exc]

(***************************************************************************)
(* The messages the host is given.                                         *)
(***************************************************************************)
ToolCallMessage(tool_name, tool_call_id, args) ==
    JsonObject([tool_name |-> tool_name, tool_call_id |-> tool_call_id, args |-> args])

HostMessages ==
    { NotJsonText,
      JsonText(JsonNonObject),
      JsonText(JsonObject(<<>>)),
      JsonText(JsonObject([action |-> TOOL_DISCOVERY_ACTION])),
      JsonText(JsonObject([action |-> "list_tools"])),
      JsonText(JsonObject([tool_name |-> "get-weather"])) }
    \cup { JsonText(ToolCallMessage(n, id, [city |-> Scalar("paris")])) :
             n \in HostToolNames \cup {"no-such-tool"}, id \in {"abc123", "def456"} }

(***************************************************************************)
(* The host adapter on its own: one step answers one message.              *)
(***************************************************************************)
HostElicitation(message, get_tools, behaviour) ==
    /\ last' = [op |-> "elicitation", message |-> message, get_tools |-> get_tools,
                behaviour |-> behaviour,
                reply |-> elicitation_callback(message, get_tools, behaviour)]
    /\ UNCHANGED <<globals_dict, guest>>
    /\ UNCHANGED rest

InitHost == globals_dict = <<>> /\ last = NoOp /\ guest = NotStarted /\ Idle

NextHost ==
    \E message \in HostMessages, get_tools \in GetToolsOutcomes,
       behaviour \in ToolBehaviours :
        HostElicitation(message, get_tools, behaviour)

SpecHost == InitHost /\ [][NextHost]_vars

(***************************************************************************)
(* The guest side of a call: decoding the reply.                           *)
(***************************************************************************)
\* a plausible slip: the result text is handed to guest code undecoded
decode_result_undecoded(text) == Return(text)

\* json.loads(content['result'])
decode_result(text) == json_loads(text)

\* error_msg = content.get('error', 'Unknown error'); raise RuntimeError(...)
decline_error_msg(content, tool_name) ==
    Raise("RuntimeError",
          <<"Tool execution failed for '", tool_name, "': ">>
              \o (IF "error" \in DOMAIN content
                  THEN content["error"] ELSE <<"Unknown error">>))

\* a plausible slip: whatever is not a decline is read as an accept
action_is_accept_unless_decline(action) == action # "decline"

\* if action == 'accept':
action_is_accept(action) == action = "accept"

\* elicit_result['action'] and elicit_result['content'] raise KeyError on a
\* reply that lacks the key
extract_tool_result(elicit_result, tool_name) ==
    IF "action" \notin DOMAIN elicit_result
    THEN Raise("KeyError", <<"'action'">>)
    ELSE IF "content" \notin DOMAIN elicit_result
    THEN Raise("KeyError", <<"'content'">>)
    ELSE
    LET action == elicit_result.action
        content == elicit_result.content
    IN  IF action_is_accept(action)
        THEN IF "result" \in DOMAIN content
             THEN decode_result(content["result"])
             ELSE Raise("KeyError", <<"'result'">>)
        ELSE IF action = "decline"
        THEN decline_error_msg(content, tool_name)
        ELSE Raise("RuntimeError",
                   <<"MCP protocol error for tool '", tool_name,
                     "': unexpected action '", action, "'">>)

\* a plausible slip: the failure is handed on as it is, without the wrapping
Reraised_passthrough(prefix, tool_name, outcome) == outcome

\* except Exception as e: raise RuntimeError(f"<prefix>'{tool_name}': {e}") from e
Reraised(prefix, tool_name, outcome) ==
    IF outcome.kind = "raise"
    THEN Raise("RuntimeError", <<prefix, tool_name, "': ">> \o outcome.exc.msg)
    ELSE outcome

\* a plausible slip: every result is driven through run_sync
enters_nested_turn_always(channel) == TRUE

\* hasattr(result, 'then'): the result is a pending operation, and run_sync
\* is entered for it
enters_nested_turn(channel) == channel = "thenable"

\* result is what the channel gave: the reply itself ("sync") or a pending
\* operation that run_sync drives to the reply ("thenable"); a callback that
\* failed on the host rejects the pending operation
handle_elicitation_result(channel, reply, tool_name) ==
    LET resolved ==
            IF reply.kind = "raise"
            THEN Raise("JsException", <<"MCP error: ">> \o reply.exc.msg)
            ELSE extract_tool_result(reply.value, tool_name)
    IN  IF enters_nested_turn(channel)
        THEN Reraised("Error resolving async result for tool '", tool_name, resolved)
        ELSE resolved

\* a guest value json.dumps cannot write
ObjectVal == [isdict |-> FALSE, val |-> "<object object>", map |-> <<>>]

\* json.dumps(tool_call_data)
json_dumps_call(tool_call_data) ==
    IF \E k \in DOMAIN tool_call_data.args : tool_call_data.args[k] = ObjectVal
    THEN Raise("TypeError", <<"Object of type object is not JSON serializable">>)
    ELSE Return(json_dumps(JsonObject(tool_call_data)))

\* who answers the message: the host adapter, with the registry's and the
\* tool's behaviour, or the channel itself, with what the invocation of the
\* callback gives: an exception, or a result that settles to a reply or to
\* a rejection
AdapterAnswer(get_tools, behaviour) ==
    [by |-> "adapter", get_tools |-> get_tools, behaviour |-> behaviour]
ChannelAnswer(submit) == [by |-> "channel", submit |-> submit]

\* tool_function(*args, **kwargs) of the closure installed for tool_name: the
\* request built, the reply received, the nested turns entered and the
\* outcome at the call site
tool_function(tool_name, tool_schema, args, kwargs, uuid4, channel, answer) ==
    LET tool_call_data == create_tool_call_part(tool_name, args, kwargs, tool_schema, uuid4)
        elicitation_message ==
            IF tool_call_data.kind = "raise" THEN tool_call_data
            ELSE json_dumps_call(tool_call_data.value)
        host == elicitation_callback(elicitation_message.value,
                                     answer.get_tools, answer.behaviour)
        result == IF answer.by = "adapter" THEN Return(host.out) ELSE answer.submit
    IN  IF elicitation_message.kind = "raise"
        THEN [sent |-> FALSE, turns |-> 0, out |-> elicitation_message]
        ELSE [sent |-> TRUE, message |-> elicitation_message.value,
              host |-> IF answer.by = "adapter" THEN host ELSE [out |-> NoOp],
              result |-> result,
              turns |-> IF result.kind = "return" /\ enters_nested_turn(channel)
                        THEN 1 ELSE 0,
              out |-> Reraised("Error calling tool '", tool_name,
                        IF result.kind = "raise" THEN result
                        ELSE handle_elicitation_result(channel, result.value,
                                                       tool_name))]

(***************************************************************************)
(* Installation of the tool functions in the guest namespace.              *)
(***************************************************************************)
GuestToolNames == {"get-weather", "get_weather", "send-email"}

\* the characters of a tool name, grouped in runs
Segments(tool_name) ==
    CASE tool_name = "get-weather" -> <<"get", "-", "weather">>
      [] tool_name = "get_weather" -> <<"get", "_", "weather">>
      [] tool_name = "send-email" -> <<"send", "-", "email">>
      [] tool_name = "send_email" -> <<"send", "_", "email">>
      [] tool_name = "fs.read" -> <<"fs", ".", "read">>
      [] OTHER -> <<tool_name>>

RECURSIVE Join(_)
Join(parts) == IF parts = <<>> THEN "" ELSE Head(parts) \o Join(Tail(parts))

\* a plausible slip: the tool is bound under its name as it is
python_name_of_unchanged(tool_name) == tool_name

\* tool_name.replace('-', '_')
python_name_of(tool_name) ==
    LET seg == Segments(tool_name)
    IN  Join([i \in 1..Len(seg) |-> IF seg[i] = "-" THEN "_" ELSE seg[i]])

\* an object bound in the namespace: one the guest defined, or a closure
\* made by _create_tool_function, each closure a new object
UserObject == [kind |-> "user", tool_name |-> "", tool_schema |-> SchemaEmpty, id |-> 0]

create_tool_function(tool_name, tool_schema, g) ==
    [kind |-> "tool", tool_name |-> tool_name, tool_schema |-> tool_schema,
     id |-> 1 + Cardinality({k \in DOMAIN g : g[k].kind = "tool"})]

\* tool_schemas: None, or a dict from tool names to schemas
NoToolSchemas == [given |-> FALSE, map |-> <<>>]
ToolSchemas(map) == [given |-> TRUE, map |-> map]

\* a plausible slip: the name is bound again although it is bound already
already_bound_never(python_name, g) == FALSE

\* python_name in globals_dict
already_bound(python_name, g) == python_name \in DOMAIN g

\* a plausible slip: only an absent schema counts as missing, {} does not
schema_missing_only_absent(tool_schemas, tool_name) ==
    tool_name \notin DOMAIN tool_schemas.map

\* tool_schema = tool_schemas.get(tool_name); not tool_schema
schema_missing(tool_schemas, tool_name) ==
    \/ tool_name \notin DOMAIN tool_schemas.map
    \/ tool_schemas.map[tool_name] = SchemaEmpty

\* the for loop, from the i-th tool of the list on
RECURSIVE inject_loop(_, _, _, _)
inject_loop(g, available_tools, i, tool_schemas) ==
    IF i > Len(available_tools)
    THEN [globals |-> g, out |-> Return("None")]
    ELSE LET tool_name == available_tools[i]
             python_name == python_name_of(tool_name)
         IN  IF already_bound(python_name, g)
             THEN inject_loop(g, available_tools, i + 1, tool_schemas)
             ELSE IF schema_missing(tool_schemas, tool_name)
             THEN [globals |-> g,
                   out |-> Raise("ValueError",
                                 <<"Schema missing for tool '", tool_name,
                                   "' - cannot inject without schema">>)]
             ELSE inject_loop(
                      Merge(g, (python_name :>
                                  create_tool_function(tool_name,
                                                       tool_schemas.map[tool_name], g))),
                      available_tools, i + 1, tool_schemas)

\* a plausible slip: an installation that fails takes back what it bound
inject_tool_functions_atomic(g, available_tools, callback_given, tool_schemas) ==
    LET done == IF Len(available_tools) = 0 \/ ~callback_given
                THEN [globals |-> g, out |-> Return("None")]
                ELSE IF ~tool_schemas.given \/ DOMAIN tool_schemas.map = {}
                THEN [globals |-> g,
                      out |-> Raise("ValueError",
                                    <<"tool_schemas is required for tool injection">>)]
                ELSE inject_loop(g, available_tools, 1, tool_schemas)
    IN  IF done.out.kind = "raise" THEN [globals |-> g, out |-> done.out] ELSE done

inject_tool_functions(g, available_tools, callback_given, tool_schemas) ==
    IF Len(available_tools) = 0 \/ ~callback_given
    THEN [globals |-> g, out |-> Return("None")]
    ELSE IF ~tool_schemas.given \/ DOMAIN tool_schemas.map = {}
    THEN [globals |-> g,
          out |-> Raise("ValueError", <<"tool_schemas is required for tool injection">>)]
    ELSE inject_loop(g, available_tools, 1, tool_schemas)

(***************************************************************************)
(* One guest session: the namespace the guest code runs in, installations  *)
(* into it and calls of the installed tool functions.                      *)
(***************************************************************************)
GuestSchema(tool_name) ==
    IF tool_name = "get_weather" THEN SchemaOf(<<>>) ELSE parameters_json_schema(tool_name)

AllToolSchemas == ToolSchemas([n \in GuestToolNames |-> GuestSchema(n)])

ToolSchemasInputs ==
    { NoToolSchemas, ToolSchemas(<<>>), AllToolSchemas,
      ToolSchemas([n \in GuestToolNames |->
                      IF n = "send-email" THEN SchemaEmpty ELSE GuestSchema(n)]) }
    \cup { ToolSchemas([n \in GuestToolNames \ {m} |-> GuestSchema(n)]) :
             m \in GuestToolNames }

\* the tool list comes from the keys of a dict: no name is listed twice
ToolLists ==
    { l \in UNION { [1..n -> GuestToolNames] : n \in 0..MaxTools } :
        \A i, j \in 1..Len(l) : l[i] = l[j] => i = j }

\* what the guest code has defined before any installation
InitialNamespaces == { <<>>, [get_weather |-> UserObject] }

Inject(available_tools, callback_given, tool_schemas) ==
    LET done == inject_tool_functions(globals_dict, available_tools,
                                      callback_given, tool_schemas)
    IN  /\ globals_dict' = done.globals
        /\ last' = [op |-> "inject", before |-> globals_dict,
                    available_tools |-> available_tools,
                    callback_given |-> callback_given,
                    tool_schemas |-> tool_schemas, out |-> done.out]
        /\ UNCHANGED guest
        /\ UNCHANGED rest

InitInject == globals_dict \in InitialNamespaces /\ last = NoOp /\ guest = NotStarted /\ Idle

NextInject ==
    \E available_tools \in ToolLists, callback_given \in BOOLEAN,
       tool_schemas \in ToolSchemasInputs :
        Inject(available_tools, callback_given, tool_schemas)

SpecInject == InitInject /\ [][NextInject]_vars

\* the calls guest code makes
CallArguments ==
    { [args |-> <<>>, kwargs |-> [city |-> Scalar("rome")]],
      [args |-> <<Scalar("paris")>>, kwargs |-> <<>>],
      [args |-> <<Scalar("paris"), Scalar("1")>>, kwargs |-> <<>>] }

Channels == {"sync", "thenable"}

SessionGetTools ==
    { Return([n \in HostToolNames |-> parameters_json_schema(n)]),
      Raise("UserError", <<"toolset is not entered">>) }

SessionToolLists == { <<"get-weather", "send-email">>, <<"get_weather">> }

Call(python_name, a, uuid4, channel, get_tools, behaviour) ==
    /\ python_name \in DOMAIN globals_dict
    /\ globals_dict[python_name].kind = "tool"
    /\ last' = [op |-> "call", python_name |-> python_name,
                tool_name |-> globals_dict[python_name].tool_name,
                args |-> a.args, kwargs |-> a.kwargs, channel |-> channel,
                behaviour |-> behaviour,
                done |-> tool_function(globals_dict[python_name].tool_name,
                                       globals_dict[python_name].tool_schema,
                                       a.args, a.kwargs, uuid4, channel,
                                       AdapterAnswer(get_tools, behaviour))]
    /\ UNCHANGED <<globals_dict, guest>>
    /\ UNCHANGED rest

Init == globals_dict \in InitialNamespaces /\ last = NoOp /\ guest = NotStarted /\ Idle

Next ==
    \/ \E available_tools \in SessionToolLists :
            Inject(available_tools, TRUE, AllToolSchemas)
    \/ \E python_name \in {python_name_of(n) : n \in GuestToolNames},
          a \in CallArguments, uuid4 \in UUIDs, channel \in Channels,
          get_tools \in SessionGetTools, behaviour \in ToolBehaviours :
            Call(python_name, a, uuid4, channel, get_tools, behaviour)

Spec == Init /\ [][Next]_vars

(***************************************************************************)
(* One call of an installed tool function, over every kind of answer the   *)
(* channel can give.  The namespace is the one the installation at the     *)
(* start of a run leaves; the call's inputs are drawn at the start and one *)
(* step applies tool_function to them.                                     *)
(***************************************************************************)
\* the tools the host offers to the guest, in the order of the registry
CallTools == <<"get-weather", "send-email", "fs.read", "ping">>

CallSchema(tool_name) ==
    CASE tool_name = "fs.read" -> SchemaOf(<<"path">>)
      [] tool_name = "ping" -> SchemaNoProperties
      [] OTHER -> parameters_json_schema(tool_name)

CallToolSchemas ==
    ToolSchemas([n \in {CallTools[i] : i \in 1..Len(CallTools)} |-> CallSchema(n)])

InstalledNamespaces ==
    { inject_tool_functions(g, CallTools, TRUE, CallToolSchemas).globals :
        g \in InitialNamespaces }

CallInputs ==
    CallArguments \cup { [args |-> <<ObjectVal>>, kwargs |-> <<>>] }

\* the invocation of the callback raises
SubmitRaises == ChannelAnswer(Raise("JsException", <<"Error: channel closed">>))
\* the pending operation is rejected
PendingRejects == ChannelAnswer(Return(Raise("McpError", <<"request timed out">>)))
\* replies of a client that is not the host adapter
ReplyCancel == ChannelAnswer(Return(Return(ElicitResult("cancel", <<>>))))
ReplyWithoutResult ==
    ChannelAnswer(Return(Return(ElicitResult("accept", [data |-> <<"{}">>]))))
ReplyNotJson ==
    ChannelAnswer(Return(Return(ElicitResult("accept", [result |-> NotJsonText]))))
ReplyWithoutAction == ChannelAnswer(Return(Return([content |-> <<>>])))
\* a cancel as the protocol writes it, without a content
ReplyCancelWithoutContent == ChannelAnswer(Return(Return([action |-> "cancel"])))
ReplyAccept ==
    ChannelAnswer(Return(Return(ElicitResult("accept",
                                    [result |-> JsonText(PyStr("sunny"))]))))
ReplyDecline ==
    ChannelAnswer(Return(Return(ElicitResult("decline", [error |-> <<"no such city">>]))))

ChannelAnswers ==
    { SubmitRaises, PendingRejects, ReplyCancel, ReplyWithoutResult, ReplyNotJson,
      ReplyWithoutAction, ReplyCancelWithoutContent, ReplyAccept, ReplyDecline }

CallAnswers ==
    ChannelAnswers
        \cup { AdapterAnswer(get_tools, behaviour) :
                 get_tools \in SessionGetTools, behaviour \in ToolBehaviours }

\* only a pending operation can be rejected
Calling ==
    { c \in [op : {"calling"},
             python_name : {python_name_of(CallTools[i]) : i \in 1..Len(CallTools)},
             a : CallInputs, uuid4 : UUIDs, channel : Channels, answer : CallAnswers] :
        c.answer = PendingRejects => c.channel = "thenable" }

ApplyCall ==
    /\ last.op = "calling"
    /\ last.python_name \in DOMAIN globals_dict
    /\ globals_dict[last.python_name].kind = "tool"
    /\ last' = [op |-> "call", python_name |-> last.python_name,
                tool_name |-> globals_dict[last.python_name].tool_name,
                args |-> last.a.args, kwargs |-> last.a.kwargs,
                uuid4 |-> last.uuid4, channel |-> last.channel,
                answer |-> last.answer,
                done |-> tool_function(globals_dict[last.python_name].tool_name,
                                       globals_dict[last.python_name].tool_schema,
                                       last.a.args, last.a.kwargs, last.uuid4,
                                       last.channel, last.answer)]
    /\ UNCHANGED <<globals_dict, guest>>
    /\ UNCHANGED rest

InitCall ==
    /\ globals_dict \in InstalledNamespaces /\ last \in Calling
    /\ guest = NotStarted /\ Idle

NextCall == ApplyCall

SpecCall == InitCall /\ [][NextCall]_vars

(***************************************************************************)
(* One guest execution, step by step.  The guest code is one thread: it    *)
(* calls tool functions one after the other.  A call builds its message    *)
(* and invokes the callback (StartCall); the host adapter answers a        *)
(* message that is on the channel (HostAnswers); the call decodes the      *)
(* reply and hands the outcome to the guest code (ReturnToGuest).  While   *)
(* the thread is inside the callback (pc "in_callback") or inside run_sync *)
(* (pc "awaiting") the guest code does not run.                            *)
(***************************************************************************)
\* a plausible slip: the pending operation is handed back without waiting
run_sync_returns_pending == FALSE

\* run_sync(result) returns only when the pending operation has settled
run_sync_blocks == TRUE

\* a plausible slip: the thread waits without turning the event loop, so the
\* settled operation is never seen
run_sync_starves_loop == FALSE

\* run_sync(result) turns the event loop until the operation has settled
run_sync_drives_loop == TRUE

\* a plausible slip: a Decline that asks for a retry is answered by sending
\* the message again
resubmits_on_retry(reply) ==
    /\ reply.kind = "return"
    /\ reply.value.action = "decline"
    /\ "retry" \in DOMAIN reply.value.content

\* tool_function invokes the callback once: there is no loop around it
resubmits(reply) == FALSE

Without(f, c) == [k \in (DOMAIN f) \ {c} |-> f[k]]

StepBehaviours ==
    { b \in ToolBehaviours : b.kind = "return" => b.value = PyStr("sunny") }

StartCall(python_name, a, channel) ==
    /\ guest.pc = "running"
    /\ guest.calls < MaxCalls
    /\ python_name \in DOMAIN globals_dict
    /\ globals_dict[python_name].kind = "tool"
    /\ LET c == guest.calls + 1
           tool_name == globals_dict[python_name].tool_name
           tool_call_data ==
               create_tool_call_part(tool_name, a.args, a.kwargs,
                                     globals_dict[python_name].tool_schema,
                                     "uuid-" \o ToString(c))
           elicitation_message ==
               IF tool_call_data.kind = "raise" THEN tool_call_data
               ELSE json_dumps_call(tool_call_data.value)
       IN  guest' =
             IF elicitation_message.kind = "raise"
             THEN [guest EXCEPT !.calls = c,
                                !.invocations = Append(@, 0),
                                !.executions = Append(@, 0),
                                !.current = [call |-> c, tool_name |-> tool_name,
                                             channel |-> channel],
                                !.outcome = elicitation_message]
             ELSE [guest EXCEPT !.calls = c,
                                !.invocations = Append(@, 1),
                                !.executions = Append(@, 0),
                                !.outstanding = (c :> elicitation_message.value) @@ @,
                                !.current = [call |-> c, tool_name |-> tool_name,
                                             channel |-> channel,
                                             message |-> elicitation_message.value],
                                !.outcome = NoOp,
                                !.pc = IF ~enters_nested_turn(channel) THEN "in_callback"
                                       ELSE IF run_sync_blocks THEN "awaiting"
                                       ELSE "running"]
    /\ UNCHANGED <<globals_dict, last>>
    /\ UNCHANGED rest

HostAnswers(c, get_tools, behaviour) ==
    /\ c \in DOMAIN guest.outstanding
    /\ LET host == elicitation_callback(guest.outstanding[c], get_tools, behaviour)
       IN  guest' = [guest EXCEPT !.outstanding = Without(@, c),
                                  !.replies = (c :> host.out) @@ @,
                                  !.executions[c] = @ + (IF host.executed THEN 1 ELSE 0)]
    /\ UNCHANGED <<globals_dict, last>>
    /\ UNCHANGED rest

\* the channel fails instead of delivering a reply: the invocation of the
\* callback raises, or the pending operation is rejected
ChannelFails(c) ==
    /\ c \in DOMAIN guest.outstanding
    /\ guest' = [guest EXCEPT !.outstanding = Without(@, c),
                              !.replies = (c :> PendingRejects.submit.value) @@ @]
    /\ UNCHANGED <<globals_dict, last>>
    /\ UNCHANGED rest

ReturnToGuest ==
    /\ guest.pc \in {"in_callback", "awaiting"}
    /\ guest.pc = "awaiting" => run_sync_drives_loop
    /\ guest.current.call \in DOMAIN guest.replies
    /\ LET c == guest.current.call
           reply == guest.replies[c]
       IN  guest' =
             IF resubmits(reply)
             THEN [guest EXCEPT !.replies = Without(@, c),
                                !.invocations[c] = @ + 1,
                                !.outstanding = (c :> guest.current.message) @@ @]
             ELSE [guest EXCEPT !.replies = Without(@, c),
                                !.consumed = Append(@, c),
                                !.pc = "running",
                                !.outcome =
                                    Reraised("Error calling tool '",
                                             guest.current.tool_name,
                                             handle_elicitation_result(
                                                 guest.current.channel, reply,
                                                 guest.current.tool_name))]
    /\ UNCHANGED <<globals_dict, last>>
    /\ UNCHANGED rest

InitSteps ==
    /\ globals_dict \in InstalledNamespaces /\ last = NoOp
    /\ guest = NotStarted /\ Idle

HostAnswersSome ==
    \E c \in 1..MaxCalls, get_tools \in SessionGetTools, behaviour \in StepBehaviours :
        HostAnswers(c, get_tools, behaviour)

NextSteps ==
    \/ \E python_name \in {python_name_of(CallTools[i]) : i \in 1..Len(CallTools)},
          a \in CallArguments, channel \in Channels :
            StartCall(python_name, a, channel)
    \/ HostAnswersSome
    \/ \E c \in 1..MaxCalls : ChannelFails(c)
    \/ ReturnToGuest

SpecSteps == InitSteps /\ [][NextSteps]_vars

\* the host adapter answers every message, and run_sync returns once the
\* operation it waits for has settled
FairSteps == SpecSteps /\ WF_vars(HostAnswersSome) /\ WF_vars(ReturnToGuest)

(***************************************************************************)
(* The run context of the host adapter.  create_tool_elicitation_callback  *)
(* constructs it and the callback it returns keeps it in its closure; the  *)
(* callback then answers the messages of every code-execution request of   *)
(* the session it was given to.                                            *)
(***************************************************************************)
\* RunContext[Any](deps=deps, model=TestModel(), usage=RunUsage()): a new
\* object, the id-th the adapter has constructed
RunContext(id, deps) == [id |-> id, deps |-> deps, model |-> "TestModel", usage |-> 0]

create_tool_elicitation_callback(deps) ==
    [constructed |-> 1, shared_run_context |-> RunContext(1, deps), request |-> 0]

\* toolset.get_tools(shared_run_context)
get_tools_context(c) == c.shared_run_context

\* a plausible slip: a new context is constructed for the execution of a call
for_run_step_context_fresh(c) ==
    RunContext(c.constructed + 1, c.shared_run_context.deps)

\* ToolManager(toolset=toolset).for_run_step(ctx=shared_run_context)
for_run_step_context(c) == c.shared_run_context

\* the context the callback hands to the registry or to the tool layer while
\* it answers message, if it reaches either
context_passed(c, message, reply) ==
    IF ~reply.queried THEN [path |-> "none"]
    ELSE IF "action" \in DOMAIN message.val.obj
            /\ message.val.obj["action"] = TOOL_DISCOVERY_ACTION
    THEN [path |-> "discovery", ctx |-> get_tools_context(c)]
    ELSE [path |-> "execution", ctx |-> for_run_step_context(c)]

Deps == {"no deps", "db connection"}

ContextMessages ==
    { NotJsonText,
      JsonText(JsonObject([action |-> TOOL_DISCOVERY_ACTION])),
      JsonText(JsonObject([action |-> "list_tools"])),
      JsonText(ToolCallMessage("get-weather", "abc123", [city |-> Scalar("paris")])) }

\* the session starts its next code-execution request
StartRequest ==
    /\ callback.request < MaxRequests
    /\ callback' = [callback EXCEPT !.request = @ + 1]
    /\ UNCHANGED <<globals_dict, last, guest, sandboxes>>

\* the callback answers a message of the request being served; none of its
\* statements assigns to shared_run_context
ContextElicitation(message, get_tools, behaviour) ==
    /\ callback.request >= 1
    /\ LET reply == elicitation_callback(message, get_tools, behaviour)
       IN  last' = [op |-> "elicitation", request |-> callback.request,
                    message |-> message, get_tools |-> get_tools,
                    behaviour |-> behaviour, reply |-> reply,
                    before |-> callback.shared_run_context,
                    passed |-> context_passed(callback, message, reply)]
    /\ UNCHANGED <<globals_dict, guest, callback, sandboxes>>

InitContext ==
    /\ globals_dict = <<>> /\ last = NoOp /\ guest = NotStarted
    /\ callback \in {create_tool_elicitation_callback(deps) : deps \in Deps}
    /\ sandboxes = <<>>

NextContext ==
    \/ StartRequest
    \/ \E message \in ContextMessages, get_tools \in SessionGetTools,
          behaviour \in StepBehaviours :
            ContextElicitation(message, get_tools, behaviour)

SpecContext == InitContext /\ [][NextContext]_vars

(***************************************************************************)
(* Invocations of one callback that run at the same time.  An invocation   *)
(* is a coroutine: it runs to its next await (get_tools on the discovery   *)
(* path, for_run_step and then handle_call on the execution path), and     *)
(* other invocations run while it waits.  data, tool_call, tool_manager    *)
(* and result are its local variables.                                     *)
(***************************************************************************)
Invocations == 1..MaxRequests

NotInvoked == [pc |-> "idle"]

ConcurrentMessages ==
    ContextMessages
        \cup { JsonText(ToolCallMessage("send-email", "def456",
                                        [to |-> Scalar("ann")])) }

ConcurrentBehaviours ==
    { b \in ToolBehaviours :
        b.kind # "model_retry" /\ (b.kind = "return" => b.value = PyStr("sunny")) }

\* a plausible slip: tool_call is kept in one place for all invocations
own_tool_call_shared(invocations, i) ==
    LET j == CHOOSE j \in DOMAIN invocations :
                 invocations[j].pc \in {"for_run_step", "handle_call"}
    IN  invocations[j].tool_call

\* tool_call is a local variable of the invocation
own_tool_call(invocations, i) == invocations[i].tool_call

\* the invocation starts and runs to its first await, or to its end when
\* it answers without awaiting
Invoke(i, message, behaviour) ==
    /\ callback.invocations[i] = NotInvoked
    /\ LET whole == elicitation_callback(message, callback.registry, behaviour)
           data == json_loads(message).value
           discovery == /\ "action" \in DOMAIN data.obj
                        /\ data.obj["action"] = TOOL_DISCOVERY_ACTION
       IN  callback' =
             [callback EXCEPT !.invocations[i] =
                IF ~whole.queried
                THEN [pc |-> "done", message |-> message, behaviour |-> behaviour,
                      out |-> whole.out]
                ELSE IF discovery
                THEN [pc |-> "get_tools", message |-> message,
                      behaviour |-> behaviour]
                ELSE [pc |-> "for_run_step", message |-> message,
                      behaviour |-> behaviour,
                      tool_call |-> validate_python(data).value]]
    /\ UNCHANGED <<globals_dict, last, guest, sandboxes>>

\* the awaited call of the invocation completes and the invocation runs on
Resume(i) ==
    /\ callback.invocations[i].pc \in {"get_tools", "for_run_step", "handle_call"}
    /\ LET inv == callback.invocations[i]
           tool_call == own_tool_call(callback.invocations, i)
           answer == elicitation_callback(
                         JsonText(ToolCallMessage(tool_call.tool_name,
                                                  tool_call.tool_call_id,
                                                  tool_call.args)),
                         callback.registry, inv.behaviour).out
       IN  callback' =
             [callback EXCEPT !.invocations[i] =
                IF inv.pc = "get_tools"
                THEN [pc |-> "done", message |-> inv.message,
                      behaviour |-> inv.behaviour,
                      out |-> elicitation_callback(inv.message, callback.registry,
                                                   inv.behaviour).out]
                ELSE IF inv.pc = "for_run_step"
                THEN IF callback.registry.kind = "return"
                     THEN [inv EXCEPT !.pc = "handle_call"]
                     ELSE [pc |-> "done", message |-> inv.message,
                           behaviour |-> inv.behaviour, out |-> answer]
                ELSE [pc |-> "done", message |-> inv.message,
                      behaviour |-> inv.behaviour, ran |-> tool_call,
                      out |-> answer]]
    /\ UNCHANGED <<globals_dict, last, guest, sandboxes>>

InitConcurrent ==
    /\ globals_dict = <<>> /\ last = NoOp /\ guest = NotStarted /\ sandboxes = <<>>
    /\ \E registry \in SessionGetTools :
          callback = [registry |-> registry,
                      invocations |-> [i \in Invocations |-> NotInvoked]]
                        @@ create_tool_elicitation_callback("no deps")

NextConcurrent ==
    \E i \in Invocations :
        \/ \E message \in ConcurrentMessages, behaviour \in ConcurrentBehaviours :
              Invoke(i, message, behaviour)
        \/ Resume(i)

SpecConcurrent == InitConcurrent /\ [][NextConcurrent]_vars

(***************************************************************************)
(* Sandboxes.  code_sandbox() starts one server process per sandbox and    *)
(* CodeSandbox.run sends it a code-execution request and decodes the       *)
(* envelope it answers with.  What the server process does with a request  *)
(* (capturing the output, installing the session's tools, the deadline,    *)
(* building the envelope) is the runtime's part, described by the design   *)
(* of the execution envelope; guest code is a short list of statements.    *)
(***************************************************************************)
SandboxIds == {"a", "b"}

\* the timeout the runtime is started with
pyodide_code_run_timeout_sec == 60

\* what a sandbox is opened with: its dependencies and its session's tools
SandboxConfigs ==
    { [dependencies |-> {"numpy"}, available_tools |-> <<"get-weather">>],
      [dependencies |-> {}, available_tools |-> <<"send-email">>] }

\* the packages the installer can resolve
Resolvable == {"numpy", "requests"}

\* a statement of guest code: print, import, expr (an expression whose
\* value is the value of the run) or call (of an installed tool)
Stmt(stmt, arg) == [stmt |-> stmt, arg |-> arg]

\* the code of a request: the dependencies it declares and its statements
Programs ==
    { [needs |-> {}, body |-> <<Stmt("print", "1"), Stmt("expr", "2")>>],
      [needs |-> {}, body |-> <<Stmt("import", "numpy"), Stmt("print", "loaded")>>],
      [needs |-> {}, body |-> <<Stmt("print", "asking"), Stmt("call", ""), Stmt("print", "done")>>],
      [needs |-> {"no-such-package"}, body |-> <<>>] }

\* a plausible slip: a run without an expression value reports no value key
success_envelope_without_null(output, value) ==
    IF value = "null" THEN [status |-> "success", output |-> output]
    ELSE [status |-> "success", output |-> output, return_value |-> value]

success_envelope(output, value) ==
    [status |-> "success", output |-> output, return_value |-> value]

error_envelope(status, output, error) ==
    [status |-> status, output |-> output, error |-> error]

timeout_error ==
    <<"Error: execution timed out after ", ToString(pyodide_code_run_timeout_sec),
      " seconds">>

\* CodeSandbox.run, from the content block on
CodeSandbox_run(content_block) ==
    IF content_block.type = "text"
    THEN json_loads(content_block.text)
    ELSE Raise("ValueError", <<"Unexpected content type: ", content_block.type>>)

\* the envelope as the caller of CodeSandbox.run gets it
Returned(envelope) ==
    CodeSandbox_run([type |-> "text", text |-> json_dumps(envelope)]).value

\* a plausible slip: the captured output is kept from one request to the next
start_output_kept(sandbox) == sandbox.output

\* the output captured for a request starts empty
start_output(sandbox) == <<>>

\* a plausible slip: one namespace, at module level, for every session
session_namespace_shared(boxes, s) ==
    LET t == CHOOSE t \in DOMAIN boxes : boxes[t].globals # <<>> \/ t = s
    IN  boxes[t].globals

\* the globals_dict handed to inject_tool_functions: the session's own
session_namespace(boxes, s) == boxes[s].globals

\* a plausible slip: the reply of an abandoned call completes the request
late_reply_completes(sandbox) ==
    [sandbox EXCEPT !.abandoned = FALSE,
                    !.envelope = Returned(success_envelope(sandbox.output, "null"))]

\* the reply of a call abandoned at the deadline is dropped
late_reply(sandbox) == [sandbox EXCEPT !.abandoned = FALSE]

Finished(sandbox, envelope) ==
    [sandbox EXCEPT !.pc = "idle", !.envelope = Returned(envelope)]

\* code_sandbox(dependencies=...): a new server process
Open(s, config) ==
    /\ s \notin DOMAIN sandboxes
    /\ sandboxes' = (s :> [dependencies |-> config.dependencies,
                           available_tools |-> config.available_tools,
                           globals |-> <<>>, requests |-> 0, pc |-> "idle",
                           program |-> <<>>, done |-> 0, output |-> <<>>,
                           value |-> "null", envelope |-> NoOp,
                           timed_out |-> FALSE, abandoned |-> FALSE]) @@ sandboxes
    /\ UNCHANGED <<globals_dict, last, guest, callback>>

\* CodeSandbox.run(code): the request reaches the server process; a
\* dependency that cannot be resolved ends it before the code runs
Begin(s, program) ==
    /\ s \in DOMAIN sandboxes
    /\ sandboxes[s].pc = "idle"
    /\ sandboxes[s].requests < MaxRequests
    /\ LET box == [sandboxes[s] EXCEPT !.requests = @ + 1, !.program = program.body,
                                       !.done = 0, !.value = "null",
                                       !.timed_out = FALSE,
                                       !.output = start_output(sandboxes[s])]
           installed ==
               inject_tool_functions(<<>>, box.available_tools, TRUE,
                   ToolSchemas([n \in HostToolNames |-> parameters_json_schema(n)]))
       IN  sandboxes' =
             [sandboxes EXCEPT ![s] =
                IF ~(program.needs \subseteq Resolvable)
                THEN Finished(box, error_envelope("install-error", box.output,
                                  <<"Can't find a pure Python 3 wheel for: ">>))
                ELSE [box EXCEPT !.pc = "running",
                                 !.globals =
                                    Merge(session_namespace(sandboxes, s),
                                          installed.globals)]]
    /\ UNCHANGED <<globals_dict, last, guest, callback>>

\* the guest code executes its next statement, or ends
Step(s) ==
    /\ s \in DOMAIN sandboxes
    /\ sandboxes[s].pc = "running"
    /\ LET box == sandboxes[s]
           next == box.program[box.done + 1]
       IN  sandboxes' =
             [sandboxes EXCEPT ![s] =
                IF box.done = Len(box.program)
                THEN Finished(box, success_envelope(box.output, box.value))
                ELSE IF next.stmt = "print"
                THEN [box EXCEPT !.done = @ + 1, !.output = Append(@, next.arg)]
                ELSE IF next.stmt = "expr"
                THEN [box EXCEPT !.done = @ + 1, !.value = next.arg]
                ELSE IF next.stmt = "call"
                THEN [box EXCEPT !.pc = "awaiting"]
                ELSE IF next.arg \in box.dependencies
                THEN [box EXCEPT !.done = @ + 1]
                ELSE Finished(box, error_envelope("run-error", box.output,
                                  <<"ModuleNotFoundError: No module named '",
                                    next.arg, "'">>))]
    /\ UNCHANGED <<globals_dict, last, guest, callback>>

\* the reply to the pending tool call arrives in time
ToolReply(s) ==
    /\ s \in DOMAIN sandboxes
    /\ sandboxes[s].pc = "awaiting"
    /\ sandboxes' = [sandboxes EXCEPT ![s].pc = "running", ![s].done = @ + 1,
                                      ![s].value = "sunny"]
    /\ UNCHANGED <<globals_dict, last, guest, callback>>

\* the deadline of the request fires
Deadline(s) ==
    /\ s \in DOMAIN sandboxes
    /\ sandboxes[s].pc \in {"running", "awaiting"}
    /\ LET box == sandboxes[s]
       IN  sandboxes' =
             [sandboxes EXCEPT ![s] =
                Finished([box EXCEPT !.timed_out = TRUE,
                                     !.abandoned = (box.pc = "awaiting")],
                         error_envelope("run-error", box.output, timeout_error))]
    /\ UNCHANGED <<globals_dict, last, guest, callback>>

\* the reply to a call that was abandoned arrives
LateReply(s) ==
    /\ s \in DOMAIN sandboxes
    /\ sandboxes[s].abandoned
    /\ sandboxes' = [sandboxes EXCEPT ![s] = late_reply(@)]
    /\ UNCHANGED <<globals_dict, last, guest, callback>>

InitSandbox ==
    /\ globals_dict = <<>> /\ last = NoOp /\ guest = NotStarted
    /\ callback = NoCallback /\ sandboxes = <<>>

NextSandbox ==
    \E s \in SandboxIds :
        \/ \E config \in SandboxConfigs : Open(s, config)
        \/ \E program \in Programs : Begin(s, program)
        \/ Step(s)
        \/ ToolReply(s)
        \/ Deadline(s)
        \/ LateReply(s)

SpecSandbox == InitSandbox /\ [][NextSandbox]_vars

(***************************************************************************)
(* The command line and the deno environment.  An argument of a command    *)
(* is the sequence of the pieces it is formatted from; the temporary       *)
(* directories are the paths that exist; what the file system and the two  *)
(* deno processes do is the environment of a call.  The backquotes of the  *)
(* messages are left out.                                                  *)
(***************************************************************************)
NoDependencies == [none |-> TRUE, list |-> <<>>]
Dependencies(list) == [none |-> FALSE, list |-> list]
NoPort == 0

\* tempfile.mkdtemp() and the directory the environment is copied to
TmpDir == "/tmp/tmpk3x"
Cwd == "/tmp/tmpk3x/mcp-run-python"

_deno_install_args(dependencies) ==
    LET args == << <<"run">>, <<"--allow-net">>, <<"--allow-read=./node_modules">>,
                   <<"--allow-write=./node_modules">>, <<"--node-modules-dir=auto">>,
                   <<"src/main.ts">>, <<"noop">> >>
    IN  IF dependencies.none THEN args
        ELSE Append(args, <<"--deps=">> \o dependencies.list)

\* a plausible slip: network access granted whatever allow_networking is
networking_args_always(allow_networking) == << <<"--allow-net">> >>

\* if allow_networking: args += ['--allow-net']
networking_args(allow_networking) ==
    IF allow_networking THEN << <<"--allow-net">> >> ELSE <<>>

_deno_run_args(mode, http_port, enable_file_outputs, dependencies, allow_networking) ==
    LET args == << <<"run">> >> \o networking_args(allow_networking)
                  \o << <<"--allow-read=./node_modules,./output_files">>,
                        <<"--allow-write=./output_files">>,
                        <<"--node-modules-dir=auto">>, <<"src/main.ts">>, <<mode>>,
                        <<"--return-mode=", "xml">>,
                        <<"--pyodide-max-workers=", "10">>,
                        <<"--pyodide-worker-wait-timeout-sec=", "60">>,
                        <<"--pyodide-code-run-timeout-sec=",
                          ToString(pyodide_code_run_timeout_sec)>> >>
                  \o (IF enable_file_outputs THEN << <<"--enable-file-outputs">> >>
                      ELSE <<>>)
                  \o (IF dependencies.none THEN <<>>
                      ELSE << <<"--deps=">> \o dependencies.list >>)
    IN  IF http_port = NoPort THEN Return(args)
        ELSE IF mode = "streamable_http"
        THEN Return(Append(args, <<"--port=", ToString(http_port)>>))
        ELSE Raise("ValueError",
                   <<"Port is only supported for ", "streamable_http", " mode">>)

\* a plausible slip: the server is started whatever the install step returned
install_failed_never(returncode) == FALSE

\* if p.returncode != 0: raise RuntimeError
install_failed(returncode) == returncode # 0

\* prepare_deno_env up to its yield: the paths that exist, the steps taken
\* and the DenoEnv yielded or the exception raised
prepare_enter(mode, http_port, enable_file_outputs, dependencies, allow_networking, env) ==
    LET made == {TmpDir}
        run_args == _deno_run_args(mode, http_port, enable_file_outputs,
                                   dependencies, allow_networking)
        install == [step |-> "install", args |-> _deno_install_args(dependencies),
                    returncode |-> env.install]
    IN  IF env.copytree = "fails before creating"
        THEN [fs |-> made, steps |-> <<>>,
              out |-> Raise("FileNotFoundError", <<"No such file or directory">>)]
        ELSE IF env.copytree = "fails midway"
        THEN [fs |-> made \cup {Cwd}, steps |-> <<>>,
              out |-> Raise("OSError", <<"No space left on device">>)]
        ELSE IF install_failed(env.install)
        THEN [fs |-> made \cup {Cwd}, steps |-> <<install>>,
              out |-> Raise("RuntimeError",
                            <<"deno run ... returned a non-zero exit code ",
                              ToString(env.install), ": ">>)]
        ELSE IF (run_args.kind = "raise")
        THEN [fs |-> made \cup {Cwd}, steps |-> <<install>>, out |-> run_args]
        ELSE [fs |-> made \cup {Cwd}, steps |-> <<install>>,
              out |-> Return([cwd |-> Cwd, args |-> run_args.value])]

\* shutil.rmtree(cwd) in the finally clause
rmtree(fs, path) ==
    IF path \in fs
    THEN [fs |-> fs \ {path}, out |-> Return("None")]
    ELSE [fs |-> fs,
          out |-> Raise("FileNotFoundError", <<"No such file or directory: ", path>>)]

\* with prepare_deno_env(...) as env: body, where body is what the block
\* does with the DenoEnv: the steps it adds and its outcome
with_prepare_deno_env(entered, body) ==
    LET ran == IF (entered.out.kind = "raise")
               THEN [steps |-> entered.steps, out |-> entered.out]
               ELSE [steps |-> entered.steps \o body.steps, out |-> body.out]
        cleanup == rmtree(entered.fs, Cwd)
    IN  [fs |-> cleanup.fs, steps |-> ran.steps, yielded |-> entered.out,
         entered |-> entered.out.kind # "raise",
         cleanup_raised |-> (cleanup.out.kind = "raise"),
         out |-> IF (cleanup.out.kind = "raise") THEN cleanup.out ELSE ran.out]

\* the with-body of run_mcp_server; except KeyboardInterrupt: return 0
run_server(args, server) ==
    [steps |-> << [step |-> "server", args |-> args,
                  returncode |-> server.returncode] >>,
     out |-> IF server.interrupted THEN Return(0)
             ELSE Return(server.returncode)]

run_mcp_server(mode, http_port, dependencies, allow_networking, enable_file_outputs, env) ==
    LET entered == prepare_enter(mode, http_port, enable_file_outputs,
                                 dependencies, allow_networking, env)
        args == IF (entered.out.kind = "raise") THEN <<>> ELSE entered.out.value.args
    IN  with_prepare_deno_env(entered, run_server(args, env.server))

\* args.mode.replace('-', '_')
ModeOf(mode) == IF mode = "streamable-http" THEN "streamable_http" ELSE mode

NoMode == "None"
__version__ == "0.0.22"

\* a plausible slip: the mode is looked at before the version flag
version_first_unless_mode(args) == args.version /\ args.mode = NoMode

\* if args.version: ... elif args.mode:
version_first(args) == args.version

\* cli_logic(args_list) after parse_args: what is printed, what is run and
\* what is returned
cli_logic(args, env) ==
    IF version_first(args)
    THEN [printed |-> << <<"mcp-run-python ", __version__>> >>, steps |-> <<>>,
          fs |-> {}, yielded |-> NoOp, entered |-> FALSE,
          cleanup_raised |-> FALSE, out |-> Return(0)]
    ELSE IF args.mode # NoMode
    THEN [printed |-> <<>>] @@
         run_mcp_server(ModeOf(args.mode), args.port, Dependencies(args.deps),
                        ~args.disable_networking, args.enable_file_outputs, env)
    ELSE [printed |-> <<>>, steps |-> <<>>, fs |-> {}, yielded |-> NoOp,
          entered |-> FALSE, cleanup_raised |-> FALSE,
          out |-> Raise("SystemExit", <<"Mode is required">>)]

\* what the file system and the two processes do.  Copying the sources
\* succeeds, fails before the destination is created (the source is
\* missing) or fails with the destination created; the server process
\* exits, or the keyboard interrupts it
Environments ==
    [copytree : {"copied", "fails before creating", "fails midway"},
     install : {0, 1},
     server : { [interrupted |-> FALSE, returncode |-> 0],
                [interrupted |-> FALSE, returncode |-> 1],
                [interrupted |-> TRUE, returncode |-> 130] }]

CliArgs ==
    [version : BOOLEAN, mode : {NoMode, "stdio", "streamable-http", "example"},
     port : {NoPort, 3001}, deps : {<<>>, <<"numpy">>},
     disable_networking : BOOLEAN, enable_file_outputs : {FALSE}]

PrepareInputs ==
    [mode : {"stdio", "streamable_http", "example"}, http_port : {NoPort, 3001},
     dependencies : {NoDependencies, Dependencies(<<>>),
                     Dependencies(<<"numpy", "requests">>)},
     allow_networking : BOOLEAN, enable_file_outputs : BOOLEAN,
     body : {Return("None"), Raise("ValueError", <<"raised in the with-body">>)}]

\* cli_logic(args_list) is called and ends
ApplyCli ==
    /\ last.op = "calling cli_logic"
    /\ last' = [op |-> "cli_logic", args |-> last.args, env |-> last.env,
                result |-> cli_logic(last.args, last.env)]
    /\ UNCHANGED <<globals_dict, guest>>
    /\ UNCHANGED rest

\* a with prepare_deno_env(...) block is entered and left
ApplyPrepare ==
    /\ last.op = "calling prepare_deno_env"
    /\ LET i == last.inputs
       IN  last' = [op |-> "prepare_deno_env", inputs |-> i, env |-> last.env,
                    result |->
                       with_prepare_deno_env(
                           prepare_enter(i.mode, i.http_port, i.enable_file_outputs,
                                         i.dependencies, i.allow_networking,
                                         last.env),
                           [steps |-> <<>>, out |-> i.body])]
    /\ UNCHANGED <<globals_dict, guest>>
    /\ UNCHANGED rest

InitCli ==
    /\ globals_dict = <<>> /\ guest = NotStarted /\ Idle
    /\ \E env \in Environments :
          \/ \E args \in CliArgs :
                last = [op |-> "calling cli_logic", args |-> args, env |-> env]
          \/ \E inputs \in PrepareInputs :
                last = [op |-> "calling prepare_deno_env", inputs |-> inputs,
                        env |-> env]

NextCli == ApplyCli \/ ApplyPrepare

SpecCli == InitCli /\ [][NextCli]_vars

(***************************************************************************)
(* The log of the install step.  prepare_deno_env reads what the install   *)
(* process writes line by line and hands each line to deps_log_handler.  A *)
(* line is the sequence of its pieces: a blank, a bar or a word.           *)
(***************************************************************************)
MaxLines == 2
MaxLineLen == 2

Pieces == {" ", "|", "debug"}

RECURSIVE lstrip(_)
lstrip(line) ==
    IF line # <<>> /\ Head(line) = " " THEN lstrip(Tail(line)) ELSE line

RECURSIVE rstrip(_)
rstrip(line) ==
    IF line # <<>> /\ line[Len(line)] = " "
    THEN rstrip(SubSeq(line, 1, Len(line) - 1))
    ELSE line

\* line.strip()
strip(line) == rstrip(lstrip(line))

\* a plausible slip: the line is split at its last bar
split_at_last_bar(line) ==
    IF \E i \in 1..Len(line) : line[i] = "|"
    THEN LET i == CHOOSE i \in 1..Len(line) :
                      line[i] = "|" /\ \A j \in (i + 1)..Len(line) : line[j] # "|"
         IN  <<SubSeq(line, 1, i - 1), SubSeq(line, i + 1, Len(line))>>
    ELSE <<line>>

\* line.split('|', 1)
split_at_first_bar(line) ==
    IF \E i \in 1..Len(line) : line[i] = "|"
    THEN LET i == CHOOSE i \in 1..Len(line) :
                      line[i] = "|" /\ \A j \in 1..(i - 1) : line[j] # "|"
         IN  <<SubSeq(line, 1, i - 1), SubSeq(line, i + 1, Len(line))>>
    ELSE <<line>>

\* level, msg = parts if len(parts) == 2 else ('info', line)
level_and_msg(line) ==
    LET parts == split_at_first_bar(line)
    IN  IF Len(parts) = 2
        THEN [event |-> "log", level |-> parts[1], msg |-> parts[2]]
        ELSE [event |-> "log", level |-> <<"info">>, msg |-> line]

\* the for loop over p.stdout: the calls of deps_log_handler and the lines
\* kept in stdout
RECURSIVE read_lines(_, _)
read_lines(lines, handler_given) ==
    IF lines = <<>> THEN [calls |-> <<>>, stdout |-> <<>>]
    ELSE LET line == strip(Head(lines))
             later == read_lines(Tail(lines), handler_given)
         IN  [calls |-> (IF handler_given THEN <<level_and_msg(line)>> ELSE <<>>)
                           \o later.calls,
              stdout |-> <<line>> \o later.stdout]

\* the install step of prepare_deno_env, from Popen to the yield: what
\* happens, in order, and how the step ends
install_step(lines, handler_given, returncode) ==
    LET read == read_lines(lines, handler_given)
    IN  [events |-> read.calls \o <<[event |-> "wait", level |-> <<>>, msg |-> <<>>]>>
                       \o (IF install_failed(returncode) THEN <<>>
                           ELSE <<[event |-> "yield", level |-> <<>>, msg |-> <<>>]>>),
         out |-> IF install_failed(returncode)
                 THEN Raise("RuntimeError",
                            <<"deno run ... returned a non-zero exit code ",
                              ToString(returncode), ": ">>)
                 ELSE Return("DenoEnv")]

\* what the install process can write
Lines == UNION { [1..n -> Pieces] : n \in 0..MaxLineLen }
Outputs == UNION { [1..n -> Lines] : n \in 0..MaxLines }

ApplyInstall ==
    /\ last.op = "installing"
    /\ last' = [op |-> "installed", lines |-> last.lines,
                handler_given |-> last.handler_given,
                returncode |-> last.returncode,
                result |-> install_step(last.lines, last.handler_given,
                                        last.returncode)]
    /\ UNCHANGED <<globals_dict, guest>>
    /\ UNCHANGED rest

InitInstall ==
    /\ globals_dict = <<>> /\ guest = NotStarted /\ Idle
    /\ \E lines \in Outputs, handler_given \in BOOLEAN, returncode \in {0, 1} :
          last = [op |-> "installing", lines |-> lines,
                  handler_given |-> handler_given, returncode |-> returncode]

NextInstall == ApplyInstall

SpecInstall == InitInstall /\ [][NextInstall]_vars

(***************************************************************************)
(* Claims about the marshalling (checked under SpecBind).                  *)
(***************************************************************************)
Marshalled == last.op = "marshal"

\* C4: a call with more positional arguments than the schema declares
\* properties (one positional against zero properties included) raises a
\* binding error (ValueError); no request is built from the other arguments.
C4_SurplusPositionalsRaise ==
    (Marshalled /\ Len(last.args) > Len(last.tool_schema.properties))
        => (last.out.kind = "raise" /\ last.out.exc.type = "ValueError")

\* one positional argument against a schema with zero properties was refused
C4_Witness ==
    /\ Marshalled
    /\ Len(last.args) = 1
    /\ last.tool_schema = SchemaOf(<<>>)
    /\ last.out.kind = "raise"
    /\ IsInfix(<<"' received ", "1", " positional args but only has ", "0">>,
               last.out.exc.msg)

\* C5: with two or more positional arguments, not more than the declared
\* properties, args binds the i-th positional to the i-th declared property,
\* then the keyword arguments are added and win on the same name.
C5_PositionalsBoundInDeclaredOrder ==
    (/\ Marshalled
     /\ "properties" \in last.tool_schema.keys
     /\ Len(last.args) >= 2
     /\ Len(last.args) <= Len(last.tool_schema.properties))
        => /\ last.out.kind = "return"
           /\ DOMAIN last.out.value.args =
                 {last.tool_schema.properties[i] : i \in 1..Len(last.args)}
                     \cup DOMAIN last.kwargs
           /\ \A k \in DOMAIN last.kwargs :
                 last.out.value.args[k] = last.kwargs[k]
           /\ \A i \in 1..Len(last.args) :
                 last.tool_schema.properties[i] \notin DOMAIN last.kwargs
                     => last.out.value.args[last.tool_schema.properties[i]]
                            = last.args[i]

\* two positionals against [x, y] with keyword y: x is the first positional
\* and y is the keyword argument
C5_Witness ==
    /\ Marshalled
    /\ last.tool_schema = SchemaOf(<<"x", "y">>)
    /\ last.args = <<Scalar("paris"), Scalar("1")>>
    /\ last.kwargs = [y |-> Scalar("7")]
    /\ last.out.kind = "return"
    /\ last.out.value.args = [x |-> Scalar("paris"), y |-> Scalar("7")]

\* C6: with exactly one positional argument and at least one declared
\* property, args is the argument's own mapping (when it is a mapping) or
\* {first property: argument} (otherwise), merged with the keyword
\* arguments, which win; with no positional argument args is the keyword
\* arguments.
C6_OnePositionalOrNone ==
    (Marshalled /\ "properties" \in last.tool_schema.keys)
        => /\ (Len(last.args) = 0)
                => (last.out.kind = "return" /\ last.out.value.args = last.kwargs)
           /\ (Len(last.args) = 1 /\ Len(last.tool_schema.properties) >= 1)
                => /\ last.out.kind = "return"
                   /\ \A k \in DOMAIN last.kwargs :
                         last.out.value.args[k] = last.kwargs[k]
                   /\ last.args[1].isdict
                        => /\ DOMAIN last.out.value.args =
                                 DOMAIN last.args[1].map \cup DOMAIN last.kwargs
                           /\ \A k \in DOMAIN last.args[1].map \ DOMAIN last.kwargs :
                                 last.out.value.args[k] = last.args[1].map[k]
                   /\ ~last.args[1].isdict
                        => /\ DOMAIN last.out.value.args =
                                 {last.tool_schema.properties[1]} \cup DOMAIN last.kwargs
                           /\ last.tool_schema.properties[1] \notin DOMAIN last.kwargs
                                => last.out.value.args[last.tool_schema.properties[1]]
                                       = last.args[1]

\* a dict positional {a: 1, x: 9} with keyword x=7 gave {a: 1, x: 7}
C6_Witness ==
    /\ Marshalled
    /\ last.tool_schema = SchemaOf(<<"city">>)
    /\ last.args = <<DictVal([a |-> Scalar("1"), x |-> Scalar("9")])>>
    /\ last.kwargs = [x |-> Scalar("7")]
    /\ last.out.kind = "return"
    /\ last.out.value.args = [a |-> Scalar("1"), x |-> Scalar("7")]

(***************************************************************************)
(* Claims about the host adapter (checked under SpecHost).                 *)
(***************************************************************************)
Answered == last.op = "elicitation"

\* C1: whatever the message (not JSON, JSON that is no object, discovery,
\* an invalid or a valid tool call) and whatever the registry and the tool
\* do, the callback returns one outcome, Accept or Decline, and raises
\* nothing.
C1_AlwaysOneOutcome ==
    Answered
        => /\ last.reply.out.kind = "return"
           /\ last.reply.out.value.action \in {"accept", "decline"}

\* a JSON value that is no object made data.get fail, and the callback
\* answered Decline
C1_Witness ==
    /\ Answered
    /\ last.message = JsonText(JsonNonObject)
    /\ last.reply.failure.type = "AttributeError"
    /\ last.reply.out.kind = "return"
    /\ last.reply.out.value.action = "decline"

\* the tool call a message asks for
CallOf(message) == validate_python(message.val).value

\* C3, as amended: a ToolRetryError gives Decline whose content has the one
\* key retry, holding the JSON text of {error: "Tool retry needed",
\* tool_name, message, tool_call_id} of the failed call; every other
\* exception gives Decline whose content has the one key error, a text that
\* ends with the exception's message.
C3_RetryIsJsonTextOthersPlainError ==
    Answered
        => /\ (last.reply.failure.type = "ToolRetryError")
                => /\ last.reply.out = Return(ElicitResult("decline",
                                                last.reply.out.value.content))
                   /\ DOMAIN last.reply.out.value.content = {"retry"}
                   /\ json_loads(last.reply.out.value.content["retry"]) =
                        Return([error |-> "Tool retry needed",
                                tool_name |-> CallOf(last.message).tool_name,
                                message |-> last.reply.failure.tool_retry.content,
                                tool_call_id |-> CallOf(last.message).tool_call_id])
           /\ (last.reply.failure.type \notin {"none", "ToolRetryError"})
                => /\ last.reply.out.kind = "return"
                   /\ last.reply.out.value.action = "decline"
                   /\ DOMAIN last.reply.out.value.content = {"error"}
                   /\ \E prefix \in {<<"Model retry failed: ">>, <<"Unexpected error: ">>} :
                        /\ (prefix = <<"Model retry failed: ">>)
                                <=> (last.reply.failure.type = "ModelRetry")
                        /\ last.reply.out.value.content["error"]
                                = prefix \o last.reply.failure.msg

\* the tool send-email asked for a retry of call abc123
C3_Witness ==
    /\ Answered
    /\ last.message.ok
    /\ last.message.val = ToolCallMessage("send-email", "abc123", [city |-> Scalar("paris")])
    /\ last.behaviour.kind = "retry"
    /\ last.reply.executed
    /\ last.reply.failure.type = "ToolRetryError"
    /\ "retry" \in DOMAIN last.reply.out.value.content

\* C3, as stated: the retry key holds the mapping {tool_name, message,
\* tool_call_id} itself.
C3_Original ==
    (Answered /\ last.reply.failure.type = "ToolRetryError")
        => /\ last.reply.out.kind = "return"
           /\ last.reply.out.value.action = "decline"
           /\ "retry" \in DOMAIN last.reply.out.value.content
           /\ last.reply.out.value.content["retry"] =
                [tool_name |-> CallOf(last.message).tool_name,
                 message |-> last.reply.failure.tool_retry.content,
                 tool_call_id |-> CallOf(last.message).tool_call_id]

IsDiscovery(message) ==
    /\ message.ok
    /\ message.val.isobject
    /\ "action" \in DOMAIN message.val.obj
    /\ message.val.obj["action"] = TOOL_DISCOVERY_ACTION

\* C8: when the registry holds the tool set T, a discovery request is
\* answered Accept with content {data: JSON text of {tool_names,
\* tool_schemas}}, tool_names being the names of T, each once, and
\* tool_schemas mapping exactly those names to their registered schemas;
\* no tool is executed.
C8_DiscoveryListsTheRegistry ==
    (Answered /\ IsDiscovery(last.message) /\ last.get_tools.kind = "return")
        => /\ last.reply.out.kind = "return"
           /\ last.reply.out.value.action = "accept"
           /\ DOMAIN last.reply.out.value.content = {"data"}
           /\ ~last.reply.executed
           /\ LET T == last.get_tools.value
                  decoded == json_loads(last.reply.out.value.content["data"])
              IN  /\ decoded.kind = "return"
                  /\ {decoded.value.tool_names[i] :
                        i \in 1..Len(decoded.value.tool_names)} = DOMAIN T
                  /\ Len(decoded.value.tool_names) = Cardinality(DOMAIN T)
                  /\ DOMAIN decoded.value.tool_schemas = DOMAIN T
                  /\ \A n \in DOMAIN T :
                        decoded.value.tool_schemas[n] = parameters_json_schema(n)

\* discovery against the registry {get-weather, send-email}
C8_Witness ==
    /\ Answered
    /\ IsDiscovery(last.message)
    /\ last.get_tools.kind = "return"
    /\ DOMAIN last.get_tools.value = {"get-weather", "send-email"}
    /\ last.reply.queried
    /\ last.reply.out.value.action = "accept"

(***************************************************************************)
(* Claims about a guest call, end to end (checked under Spec).             *)
(***************************************************************************)
Called == last.op = "call" /\ last.done.sent

HostReply == last.done.host.out.value

\* C2: whenever the host replies Decline to a tool call, the guest call
\* raises at the call site a failure whose text contains the tool name and
\* the Decline's content: the error text of an error Decline, the retry
\* message of a retry Decline.
C2_DeclineTextReachesGuest ==
    (Called /\ HostReply.action = "decline")
        => /\ last.done.out.kind = "raise"
           /\ IsInfix(<<last.tool_name>>, last.done.out.exc.msg)
           /\ ("error" \in DOMAIN HostReply.content)
                => IsInfix(HostReply.content["error"], last.done.out.exc.msg)
           /\ ("retry" \in DOMAIN HostReply.content)
                => IsInfix(HostReply.content["retry"].val.message,
                           last.done.out.exc.msg)

\* the tool result a call should hand to guest code is one JSON can write
\* and read back unchanged: not a tuple, not an arbitrary object
JsonNative(v) == v.t \in {"str", "int", "list"}

\* C7: when the host executes the tool successfully with a JSON value v,
\* the guest call returns v: the host puts json.dumps(v) in the result
\* field of the Accept content and the guest decodes that field.
C7_ResultRoundTrip ==
    (/\ Called
     /\ last.done.host.executed
     /\ last.behaviour.kind = "return"
     /\ JsonNative(last.behaviour.value))
        => /\ HostReply = ElicitResult("accept",
                            ("result" :> JsonText(last.behaviour.value)))
           /\ last.done.out = Return(last.behaviour.value)

\* get_weather("paris") was answered "sunny" over a pending reply
C7_Witness ==
    /\ Called
    /\ last.python_name = "get_weather"
    /\ last.tool_name = "get-weather"
    /\ last.args = <<Scalar("paris")>>
    /\ last.channel = "thenable"
    /\ last.done.message.val.obj.args = [city |-> Scalar("paris")]
    /\ last.done.host.executed
    /\ last.done.out = Return(PyStr("sunny"))

(***************************************************************************)
(* Claims about the installation (checked under SpecInject).               *)
(***************************************************************************)
Installed == last.op = "inject"

\* the same tool list is installed again: with the same callback and
\* schemas, or after an installation that went through the whole list
SameListAgain ==
    /\ last.op = "inject"
    /\ last'.op = "inject"
    /\ last'.available_tools = last.available_tools
    /\ \/ /\ last'.callback_given = last.callback_given
          /\ last'.tool_schemas = last.tool_schemas
       \/ last.callback_given /\ last.out.kind = "return"

\* C9: an installation never rebinds or removes a name that is bound, so
\* every key bound before a call maps to the same object after it, and
\* installing the same tool list a second time changes nothing.
C9_NeverOverwrites ==
    [][ /\ \A k \in DOMAIN globals_dict :
              k \in DOMAIN globals_dict' /\ globals_dict'[k] = globals_dict[k]
        /\ SameListAgain => globals_dict' = globals_dict ]_vars

\* get-weather and send-email were installed into a namespace in which the
\* guest had defined get_weather: send_email is new, get_weather is the
\* guest's object still
C9_Witness ==
    /\ Installed
    /\ last.available_tools = <<"get-weather", "send-email">>
    /\ last.out.kind = "return"
    /\ "get_weather" \in DOMAIN last.before
    /\ last.before["get_weather"] = UserObject
    /\ last.callback_given
    /\ "send_email" \notin DOMAIN last.before
    /\ "send_email" \in DOMAIN globals_dict
    /\ globals_dict["send_email"].kind = "tool"
    /\ globals_dict["get_weather"] = UserObject

\* the tool has no schema: none is given for it, or an empty one
Lacks(tool_schemas, tool_name) ==
    \/ tool_name \notin DOMAIN tool_schemas.map
    \/ tool_schemas.map[tool_name].keys = {}

\* the listed tools that lack a schema and whose identifier is bound neither
\* before the installation nor by an earlier tool of the list
Offending(before, available_tools, tool_schemas) ==
    { i \in 1..Len(available_tools) :
        /\ Lacks(tool_schemas, available_tools[i])
        /\ python_name_of(available_tools[i]) \notin DOMAIN before
        /\ \A j \in 1..(i - 1) :
              python_name_of(available_tools[j]) # python_name_of(available_tools[i]) }

Least(S) == CHOOSE i \in S : \A j \in S : i <= j

\* C10, as amended: with a non-empty tool list and a callback, installation
\* fails with a ValueError naming no tool when tool_schemas is None or
\* empty; otherwise it fails exactly when some listed tool lacks a schema
\* and its identifier is not bound when the loop reaches it, with a
\* ValueError naming the first such tool.  A listed tool whose identifier is
\* bound is skipped, schema or not.
C10_FailsForFirstUnboundToolWithoutSchema ==
    (Installed /\ Len(last.available_tools) > 0 /\ last.callback_given)
        => IF ~last.tool_schemas.given \/ DOMAIN last.tool_schemas.map = {}
           THEN last.out =
                    Raise("ValueError", <<"tool_schemas is required for tool injection">>)
           ELSE LET bad == Offending(last.before, last.available_tools,
                                      last.tool_schemas)
                IN  IF bad = {}
                    THEN last.out.kind = "return"
                    ELSE last.out =
                            Raise("ValueError",
                                  <<"Schema missing for tool '",
                                    last.available_tools[Least(bad)],
                                    "' - cannot inject without schema">>)

\* send-email, listed second with an empty schema, made the installation
\* fail after get-weather had been installed
C10_Witness ==
    /\ Installed
    /\ last.callback_given
    /\ last.available_tools = <<"get-weather", "send-email">>
    /\ last.before = <<>>
    /\ "send-email" \in DOMAIN last.tool_schemas.map
    /\ last.tool_schemas.map["send-email"] = SchemaEmpty
    /\ last.out.kind = "raise"
    /\ IsInfix(<<"Schema missing for tool '", "send-email">>, last.out.exc.msg)
    /\ DOMAIN globals_dict = {"get_weather"}

\* C10, as stated (here for a tool_schemas dict that is not empty):
\* whenever a listed tool lacks a schema, bound identifier or not,
\* installation fails with a configuration error naming such a tool.
C10_Original ==
    (/\ Installed
     /\ Len(last.available_tools) > 0
     /\ last.callback_given
     /\ last.tool_schemas.given
     /\ DOMAIN last.tool_schemas.map # {}
     /\ \E i \in 1..Len(last.available_tools) :
            Lacks(last.tool_schemas, last.available_tools[i]))
        => /\ last.out.kind = "raise"
           /\ last.out.exc.type = "ValueError"
           /\ \E i \in 1..Len(last.available_tools) :
                /\ Lacks(last.tool_schemas, last.available_tools[i])
                /\ IsInfix(<<last.available_tools[i]>>, last.out.exc.msg)

(***************************************************************************)
(* Claims about one call of an installed tool function (checked under      *)
(* SpecCall).                                                              *)
(***************************************************************************)
\* the call of the last step put its message on the channel
Submitted == last.op = "call" /\ last.done.sent

\* the answers that fail while the message is submitted, while the reply is
\* awaited or while it is decoded
FailingAnswers ==
    { SubmitRaises, PendingRejects, ReplyCancel, ReplyWithoutResult, ReplyNotJson,
      ReplyWithoutAction }

\* the text of the underlying failure
CauseOf(answer) ==
    CASE answer = SubmitRaises -> <<"Error: channel closed">>
      [] answer = PendingRejects -> <<"request timed out">>
      [] answer = ReplyCancel -> <<"': unexpected action '", "cancel", "'">>
      [] answer = ReplyWithoutResult -> <<"'result'">>
      [] answer = ReplyNotJson -> <<"Expecting value: line 1 column 1 (char 0)">>
      [] answer = ReplyWithoutAction -> <<"'action'">>

\* C11: whatever fails once the message is being submitted (the submission
\* itself, the pending reply, a reply of an unexpected shape, without its
\* result key or with a result that is not JSON) reaches the guest as a
\* RuntimeError whose text holds the tool name and the text of the cause;
\* no failure of another type reaches the guest from a submitted call.
C11_OnlyRuntimeErrorReachesGuest ==
    Submitted =>
        /\ last.done.out.kind = "raise" =>
              /\ last.done.out.exc.type = "RuntimeError"
              /\ IsInfix(<<"Error calling tool '", last.tool_name, "': ">>,
                         last.done.out.exc.msg)
        /\ last.answer \in FailingAnswers =>
              /\ last.done.out.kind = "raise"
              /\ IsInfix(CauseOf(last.answer), last.done.out.exc.msg)

\* a reply without its result key has failed at the call site
C11_Witness ==
    /\ Submitted
    /\ last.answer = ReplyWithoutResult
    /\ last.tool_name = "send-email"
    /\ last.done.out.kind = "raise"
    /\ last.done.out.exc.type = "RuntimeError"
    /\ IsInfix(<<"'result'">>, last.done.out.exc.msg)

\* the schema has no properties key, or there are more positional arguments
\* than declared parameters
MarshallingFails ==
    /\ last.op = "call"
    /\ LET tool_schema == globals_dict[last.python_name].tool_schema
       IN  \/ "properties" \notin tool_schema.keys
           \/ Len(last.args) > Len(tool_schema.properties)

\* C12: when the marshalling fails (schema without properties, surplus
\* positional arguments) the call fails with that ValueError and nothing
\* is put on the channel: the callback is not invoked, no nested turn runs.
C12_NothingSentWhenMarshallingFails ==
    MarshallingFails =>
        /\ ~last.done.sent
        /\ last.done.turns = 0
        /\ last.done.out.kind = "raise"
        /\ last.done.out.exc.type = "ValueError"
        /\ IsInfix(<<last.tool_name>>, last.done.out.exc.msg)

\* two positional arguments for the one parameter of get-weather
C12_Witness ==
    /\ MarshallingFails
    /\ last.tool_name = "get-weather"
    /\ Len(last.args) = 2
    /\ ~last.done.sent
    /\ last.done.out.kind = "raise"

\* the callback gave a result that settles to a reply
Replied ==
    /\ Submitted
    /\ last.done.result.kind = "return"
    /\ last.done.result.value.kind = "return"

\* the outcome of the same call, with the same reply, on the given path
OutcomeOn(channel) ==
    tool_function(last.tool_name, globals_dict[last.python_name].tool_schema,
                  last.args, last.kwargs, last.uuid4, channel, last.answer).out

\* the text of the failure on the pending path, given the one on the
\* synchronous path: the failure passes through one more handler
WithResolvingPrefix(msg, tool_name) ==
    <<"Error calling tool '", tool_name, "': ",
      "Error resolving async result for tool '", tool_name, "': ">>
        \o SubSeq(msg, 4, Len(msg))

\* C19 (amended): a result given synchronously is decoded without a nested
\* turn and a pending one with exactly one; for the same reply both paths
\* return the same value, and where the reply fails both raise a
\* RuntimeError, the text on the pending path being the one on the
\* synchronous path with "Error resolving async result for tool '<name>': "
\* put before the cause.
C19_SamePathsUpToResolvingPrefix ==
    Replied =>
        /\ last.done.turns = (IF last.channel = "thenable" THEN 1 ELSE 0)
        /\ OutcomeOn(last.channel) = last.done.out
        /\ LET sync == OutcomeOn("sync")
               pending == OutcomeOn("thenable")
           IN  IF sync.kind = "return"
               THEN pending = sync
               ELSE /\ pending.kind = "raise"
                    /\ sync.exc.type = "RuntimeError"
                    /\ pending.exc.type = "RuntimeError"
                    /\ pending.exc.msg = WithResolvingPrefix(sync.exc.msg, last.tool_name)

\* a declined call on the pending path has entered the nested turn and
\* carries the additional prefix
C19_Witness ==
    /\ Replied
    /\ last.channel = "thenable"
    /\ last.answer = ReplyDecline
    /\ last.done.turns = 1
    /\ last.done.out.kind = "raise"
    /\ IsInfix(<<"Error resolving async result for tool '">>, last.done.out.exc.msg)
    /\ ~IsInfix(<<"Error resolving async result for tool '">>,
                OutcomeOn("sync").exc.msg)

\* C19, as stated: both paths give the same return value or the same
\* failure for the same reply.
C19_Original ==
    Replied =>
        /\ last.done.turns = (IF last.channel = "thenable" THEN 1 ELSE 0)
        /\ OutcomeOn("sync") = OutcomeOn("thenable")

\* the characters that separate the words of a tool name and cannot stand
\* in an identifier
InvalidSeparators == {"-", "."}

WithSeparatorsReplaced(seg) ==
    [i \in 1..Len(seg) |-> IF seg[i] \in InvalidSeparators THEN "_" ELSE seg[i]]

\* C20, as stated: the identifier of every installed tool is its name with
\* each separator that is not valid in an identifier replaced by "_", and
\* the request of a call carries the tool's unmodified name.
C20_IdentifierIsNameWithSeparatorsReplaced ==
    /\ \A k \in DOMAIN globals_dict :
          globals_dict[k].kind = "tool" =>
              Segments(k) = WithSeparatorsReplaced(Segments(globals_dict[k].tool_name))
    /\ Submitted =>
          /\ last.done.message.val.obj.tool_name = last.tool_name
          /\ last.tool_name = globals_dict[last.python_name].tool_name

(***************************************************************************)
(* Further claims about the host adapter (checked under SpecHost).         *)
(***************************************************************************)
Declined ==
    /\ Answered
    /\ last.reply.out.kind = "return"
    /\ last.reply.out.value.action = "decline"

\* C13: every Decline the host adapter returns has content with an error
\* key holding a text that is not empty, or with a retry key holding the
\* JSON text of a mapping that is not empty.
C13_DeclineIsNeverContentFree ==
    Declined =>
        LET content == last.reply.out.value.content
        IN  \/ /\ "error" \in DOMAIN content
               /\ Len(content["error"]) > 0
               /\ content["error"][1] # ""
            \/ /\ "retry" \in DOMAIN content
               /\ content["retry"].ok
               /\ DOMAIN content["retry"].val # {}

\* the Decline for a tool that asked for a retry carries the retry key
C13_Witness ==
    /\ Declined
    /\ last.reply.failure.type = "ToolRetryError"
    /\ DOMAIN last.reply.out.value.content = {"retry"}
    /\ DOMAIN last.reply.out.value.content["retry"].val # {}

\* the message is not JSON
Unparsable == Answered /\ ~last.message.ok

\* the message is JSON, but not an object
NotAnObject == Answered /\ last.message.ok /\ ~last.message.val.isobject

\* C14 (amended): a message that is not JSON is answered Decline with the
\* one key error, "Invalid JSON: " followed by the parser's message; JSON
\* that is no object is answered Decline with "Unexpected error: ..."; in
\* both cases the registry is not queried and no tool is executed.
C14_UnparsableIsDeclinedUnprocessed ==
    /\ Unparsable =>
          /\ last.reply.out =
                Return(ElicitResult("decline",
                    [error |-> <<"Invalid JSON: ",
                                 "Expecting value: line 1 column 1 (char 0)">>]))
          /\ ~last.reply.queried
          /\ ~last.reply.executed
    /\ NotAnObject =>
          /\ Declined
          /\ DOMAIN last.reply.out.value.content = {"error"}
          /\ last.reply.out.value.content["error"][1] = "Unexpected error: "
          /\ ~last.reply.queried
          /\ ~last.reply.executed

\* a text that is not JSON was declined although the registry works and
\* the tool would have returned
C14_Witness ==
    /\ Unparsable
    /\ last.get_tools.kind = "return"
    /\ last.behaviour.kind = "return"
    /\ Declined
    /\ last.reply.out.value.content["error"][1] = "Invalid JSON: "
    /\ ~last.reply.queried

\* C14, as stated: the answer to a message that cannot be parsed is
\* Decline({error: "invalid message"}), with no further processing.
C14_Original ==
    (Unparsable \/ NotAnObject) =>
        /\ last.reply.out =
              Return(ElicitResult("decline", [error |-> <<"invalid message">>]))
        /\ ~last.reply.queried
        /\ ~last.reply.executed

\* the message is a JSON object that is no discovery request and lacks the
\* tool name a ToolCallRequest must have
InvalidToolCall ==
    /\ Answered
    /\ last.message.ok
    /\ last.message.val.isobject
    /\ ~IsDiscovery(last.message)
    /\ "tool_name" \notin DOMAIN last.message.val.obj

\* C15 (amended): a parsed message that is no discovery request and fails
\* validation is answered Decline with the one key error, "Invalid tool
\* call: " followed by the validation error's text, and neither the registry
\* nor a tool is reached; a tool is executed only for a message that is a
\* JSON object, no discovery request, and has passed validation.
C15_InvalidCallIsDeclinedUnexecuted ==
    /\ InvalidToolCall =>
          /\ last.reply.out =
                Return(ElicitResult("decline",
                    [error |-> <<"Invalid tool call: ",
                                 "1 validation error for ToolCallPart">>]))
          /\ ~last.reply.queried
          /\ ~last.reply.executed
    /\ (Answered /\ last.reply.executed) =>
          /\ last.message.ok
          /\ last.message.val.isobject
          /\ ~IsDiscovery(last.message)
          /\ "tool_name" \in DOMAIN last.message.val.obj

\* an object with an unknown action and no tool name was declined although
\* the registry works and the tool would have returned
C15_Witness ==
    /\ InvalidToolCall
    /\ DOMAIN last.message.val.obj = {"action"}
    /\ last.get_tools.kind = "return"
    /\ last.behaviour.kind = "return"
    /\ Declined
    /\ last.reply.out.value.content["error"][1] = "Invalid tool call: "
    /\ ~last.reply.executed

\* C15, as stated: the answer to a message that fails validation is
\* Decline({error: "invalid tool call"}), and no tool is executed for it.
C15_Original ==
    InvalidToolCall =>
        /\ last.reply.out =
              Return(ElicitResult("decline", [error |-> <<"invalid tool call">>]))
        /\ ~last.reply.executed

(***************************************************************************)
(* Claims about one guest execution (checked under SpecSteps, the          *)
(* liveness claim under FairSteps).                                        *)
(***************************************************************************)
Range(seq) == {seq[i] : i \in 1..Len(seq)}

\* the calls whose message is with the host or whose reply waits for the guest
Pending == (DOMAIN guest.outstanding) \cup (DOMAIN guest.replies)

\* C16: at every moment at most one tool call of the guest execution is
\* outstanding, and it is the call made last; while guest code runs no call
\* is outstanding and no reply is waiting, so a call returns only after its
\* own reply; the replies are consumed in the order of the calls.
C16_OneOutstandingCallInOrder ==
    /\ Cardinality(Pending) <= 1
    /\ Pending \subseteq {guest.calls}
    /\ guest.pc = "running" => Pending = {}
    /\ \A i, j \in 1..Len(guest.consumed) :
          i < j => guest.consumed[i] < guest.consumed[j]
    /\ \A c \in Range(guest.consumed) : guest.invocations[c] = 1

\* the third call waits in run_sync for its reply after the first two have
\* returned in their order
C16_Witness ==
    /\ guest.pc = "awaiting"
    /\ guest.consumed = <<1, 2>>
    /\ DOMAIN guest.outstanding = {3}

\* C17: given that the host adapter answers every message, every call that
\* has put its message on the channel eventually hands an outcome, a value
\* or a failure, to the guest code: the thread does not wait forever.
C17_SubmittedCallReturns ==
    \A c \in 1..MaxCalls :
        (c \in DOMAIN guest.outstanding)
            ~> (c \in Range(guest.consumed) /\ guest.pc = "running")

\* a call on the pending path has returned a value to the guest code
C17_Witness ==
    /\ guest.pc = "running"
    /\ guest.consumed = <<1>>
    /\ guest.current.channel = "thenable"
    /\ guest.outcome = Return(PyStr("sunny"))

\* C18: every call invokes the callback at most once (not at all when the
\* marshalling fails, once otherwise), whatever the reply or the failure of
\* the channel, and the host executes a tool at most once for a message.
C18_NoAutomaticRetry ==
    \A c \in 1..guest.calls :
        /\ guest.invocations[c] <= 1
        /\ guest.executions[c] <= guest.invocations[c]
        /\ c \in Range(guest.consumed) => guest.invocations[c] = 1

\* the tool asked for a retry, the call failed at its call site, and the
\* message had been sent once and the tool run once
C18_Witness ==
    /\ guest.pc = "running"
    /\ guest.consumed = <<1>>
    /\ guest.calls = 1
    /\ guest.outcome.kind = "raise"
    /\ IsInfix(<<"Unknown error">>, guest.outcome.exc.msg)
    /\ guest.invocations = <<1>>
    /\ guest.executions = <<1>>

(***************************************************************************)
(* Claims about the run context (checked under SpecContext).               *)
(***************************************************************************)
ContextUsed == last.op = "elicitation" /\ last.passed.path # "none"

\* C21 (amended): one run context is constructed, when the callback is
\* created; that same value is passed to the discovery path and to the
\* execution path of every message the callback answers, whichever
\* code-execution request the message belongs to, and the callback's own
\* statements leave it as it was constructed.
C21_OneContextPerCallback ==
    /\ callback.constructed = 1
    /\ callback.shared_run_context =
          RunContext(1, callback.shared_run_context.deps)
    /\ ContextUsed =>
          /\ last.passed.ctx = callback.shared_run_context
          /\ last.before = callback.shared_run_context

\* a tool is executed for the second request with the context constructed
\* before the first
C21_Witness ==
    /\ ContextUsed
    /\ last.request = 2
    /\ last.passed.path = "execution"
    /\ last.reply.executed
    /\ last.passed.ctx.id = 1
    /\ callback.constructed = 1

\* C21, as stated: one context is constructed per code-execution request,
\* and it is the one passed to both paths and left unchanged.
C21_Original ==
    /\ callback.request >= 1 => callback.constructed = callback.request
    /\ ContextUsed =>
          /\ last.passed.ctx = callback.shared_run_context
          /\ last.before = callback.shared_run_context

(***************************************************************************)
(* Claims about sandboxes (checked under SpecSandbox).                     *)
(***************************************************************************)
OpenBoxes == DOMAIN sandboxes

\* the sandboxes whose last request has been answered
AnsweredBoxes == {s \in OpenBoxes : sandboxes[s].pc = "idle" /\ sandboxes[s].envelope # NoOp}

EnvelopeOf(s) == sandboxes[s].envelope

\* the lines the statements executed so far have printed, in order
RECURSIVE PrintedBy(_, _)
PrintedBy(program, done) ==
    IF done = 0 THEN <<>>
    ELSE IF program[done].stmt = "print"
    THEN Append(PrintedBy(program, done - 1), program[done].arg)
    ELSE PrintedBy(program, done - 1)

C23_OutputIsOwnLines ==
    \A s \in AnsweredBoxes :
        LET e == EnvelopeOf(s)
        IN  /\ "output" \in DOMAIN e
            /\ e.output \in Seq({"1", "loaded", "asking", "done"})
            /\ e.output = PrintedBy(sandboxes[s].program, sandboxes[s].done)

\* the second request of a sandbox printed one line after the first
\* request had printed
C23_Witness ==
    /\ "a" \in AnsweredBoxes
    /\ sandboxes["a"].requests = 2
    /\ EnvelopeOf("a").status = "success"
    /\ EnvelopeOf("a").output = <<"1">>

\* what a sandbox can see is its own: the tools of its session, the
\* dependencies it was opened with, the lines its request printed
OwnOnly(s) ==
    LET box == sandboxes[s]
    IN  /\ DOMAIN box.globals \subseteq
              {python_name_of(box.available_tools[i]) :
                  i \in 1..Len(box.available_tools)}
        /\ \A i \in 1..box.done :
              box.program[i].stmt = "import" =>
                  box.program[i].arg \in box.dependencies
        /\ box.output = PrintedBy(box.program, box.done)

AllOwnOnly == \A s \in OpenBoxes : OwnOnly(s)

\* C24: a step for one sandbox leaves every other open sandbox as it was,
\* and after any step each sandbox sees only the dependencies it was
\* opened with, the tools of its own session and the output of its own
\* request, however the requests to the sandboxes interleave.
C24_SandboxesIsolated ==
    [][ /\ \A s \in OpenBoxes : \A t \in OpenBoxes \ {s} :
              sandboxes'[s] = sandboxes[s] \/ sandboxes'[t] = sandboxes[t]
        /\ AllOwnOnly' ]_vars

\* both sandboxes ran the same import: it succeeded where numpy was
\* installed and failed in the other, and each has only its own tool
C24_Witness ==
    /\ AnsweredBoxes = SandboxIds
    /\ sandboxes["a"].dependencies = {"numpy"}
    /\ sandboxes["b"].dependencies = {}
    /\ EnvelopeOf("a").status = "success"
    /\ EnvelopeOf("a").output = <<"loaded">>
    /\ EnvelopeOf("b").status = "run-error"
    /\ EnvelopeOf("b").error[2] = "numpy"
    /\ DOMAIN sandboxes["a"].globals = {"get_weather"}
    /\ DOMAIN sandboxes["b"].globals = {"send_email"}

\* the last request of the sandbox met its deadline while its tool call
\* was pending
TimedOutPending(s) ==
    /\ s \in AnsweredBoxes
    /\ sandboxes[s].timed_out
    /\ sandboxes[s].done < Len(sandboxes[s].program)
    /\ sandboxes[s].program[sandboxes[s].done + 1] = Stmt("call", "")

\* C29: when the deadline fires while a tool call is pending, the call is
\* abandoned and the envelope of the request is a run-error whose message
\* names the timeout; the reply that arrives later changes nothing: the
\* envelope holds no tool result and is never a success.
C29_DeadlineWhilePending ==
    \A s \in OpenBoxes :
        TimedOutPending(s) =>
            LET e == EnvelopeOf(s)
            IN  /\ e.status = "run-error"
                /\ "error" \in DOMAIN e
                /\ IsInfix(<<ToString(pyodide_code_run_timeout_sec)>>, e.error)
                /\ "return_value" \notin DOMAIN e
                /\ e.output = PrintedBy(sandboxes[s].program, sandboxes[s].done)
                /\ sandboxes[s].value = "null"

\* the deadline fired during a pending call and the late reply has come
C29_Witness ==
    /\ TimedOutPending("a")
    /\ ~sandboxes["a"].abandoned
    /\ EnvelopeOf("a").status = "run-error"
    /\ EnvelopeOf("a").output = <<"asking">>

(***************************************************************************)
(* Claims about the command line and the deno environment (checked under   *)
(* SpecCli).                                                               *)
(***************************************************************************)
Prepared == last.op = "prepare_deno_env"
CliDone == last.op = "cli_logic"

StepsNamed(name) ==
    {i \in 1..Len(last.result.steps) : last.result.steps[i].step = name}

HasArg(args, arg) == \E i \in 1..Len(args) : args[i] = arg

\* C25: however a with prepare_deno_env(...) block is left, the directory
\* of the deno environment does not exist afterwards and the cleanup
\* raises no error of its own.
C25_DirectoryRemovedWithoutCleanupError ==
    Prepared =>
        /\ Cwd \notin last.result.fs
        /\ ~last.result.cleanup_raised

\* C26: the arguments the server is run with hold --allow-net exactly
\* when allow_networking is true, whatever the mode and the other
\* options; the arguments of the install step always hold it; with
\* --disable-networking the command line runs the server without it.
C26_AllowNetIffAllowNetworking ==
    /\ (Prepared \/ CliDone) =>
          \A i \in StepsNamed("install") :
              HasArg(last.result.steps[i].args, <<"--allow-net">>)
    /\ Prepared /\ last.result.entered =>
          (HasArg(last.result.yielded.value.args, <<"--allow-net">>)
              <=> last.inputs.allow_networking)
    /\ CliDone =>
          \A i \in StepsNamed("server") :
              HasArg(last.result.steps[i].args, <<"--allow-net">>)
                  <=> ~last.args.disable_networking

\* the command line ran the server with networking disabled, after an
\* install step that had network access
C26_Witness ==
    /\ CliDone
    /\ last.args.disable_networking
    /\ StepsNamed("install") = {1}
    /\ StepsNamed("server") = {2}
    /\ HasArg(last.result.steps[1].args, <<"--allow-net">>)
    /\ ~HasArg(last.result.steps[2].args, <<"--allow-net">>)

\* the command line was given a mode and not --version
ModeRun == CliDone /\ ~last.args.version /\ last.args.mode # NoMode

\* the server is started at most once, as the step after an install step
\* that exited with 0
ServerAfterInstall ==
    \A i \in StepsNamed("server") :
        /\ i = 2
        /\ last.result.steps[1].step = "install"
        /\ last.result.steps[1].returncode = 0

\* C27 (amended): with a mode, cli_logic returns the exit code of the
\* server process it ran unless the keyboard interrupted the server, and
\* then it returns 0; it returns a value only if it ran the server, and
\* the server is started only after the install step has exited with 0.
C27_ReturnsServerExitCode ==
    ModeRun =>
        /\ ServerAfterInstall
        /\ last.result.out.kind = "return" =>
              /\ StepsNamed("server") = {2}
              /\ last.result.out.value =
                    IF last.env.server.interrupted THEN 0
                    ELSE last.result.steps[2].returncode

\* the example mode without its dependency: the server exits with 1 after
\* the install step exited with 0, and 1 is returned
C27_Witness ==
    /\ ModeRun
    /\ last.args.mode = "example"
    /\ last.args.deps = <<>>
    /\ StepsNamed("server") = {2}
    /\ last.result.steps[1].returncode = 0
    /\ last.result.steps[2].returncode = 1
    /\ last.result.out = Return(1)

\* C27, as stated: with a mode, cli_logic returns the exit code of the
\* server process it ran, and the server is started only after the
\* install step has exited with 0.
C27_Original ==
    ModeRun =>
        /\ ServerAfterInstall
        /\ last.result.out.kind = "return" =>
              /\ StepsNamed("server") = {2}
              /\ last.result.out.value = last.result.steps[2].returncode

NothingRun ==
    /\ last.result.steps = <<>>
    /\ last.result.fs = {}
    /\ ~last.result.entered

\* C28: with --version, with or without a mode, cli_logic prints a line
\* that starts with "mcp-run-python " and returns 0, and no environment
\* is prepared and no server started; with neither --version nor a mode
\* it ends in the parser's error and nothing is run either.
C28_VersionFirst ==
    /\ CliDone /\ last.args.version =>
          /\ Len(last.result.printed) = 1
          /\ Head(last.result.printed[1]) = "mcp-run-python "
          /\ last.result.out = Return(0)
          /\ NothingRun
    /\ CliDone /\ ~last.args.version /\ last.args.mode = NoMode =>
          /\ last.result.out.kind = "raise"
          /\ last.result.out.exc.type = "SystemExit"
          /\ last.result.printed = <<>>
          /\ NothingRun

\* --version together with a mode: the version is printed, nothing is run
C28_Witness ==
    /\ CliDone
    /\ last.args.version
    /\ last.args.mode = "stdio"
    /\ last.result.out = Return(0)
    /\ last.result.printed = << <<"mcp-run-python ", __version__>> >>
    /\ last.result.steps = <<>>

(***************************************************************************)
(* Claims about what an installation binds (checked under SpecInject).     *)
(***************************************************************************)
\* the tool name with each hyphen replaced by an underscore
Underscored(tool_name) ==
    CASE tool_name = "get-weather" -> "get_weather"
      [] tool_name = "send-email" -> "send_email"
      [] OTHER -> tool_name

NewNames == DOMAIN globals_dict \ DOMAIN last.before

\* the names of the listed tools that were not bound before the call
ListedUnbound ==
    {Underscored(last.available_tools[i]) : i \in 1..Len(last.available_tools)}
        \ DOMAIN last.before

\* no key bound before the call is removed or bound to another object,
\* and an identifier no listed tool gives stays unbound
OthersUntouched ==
    /\ \A k \in DOMAIN last.before :
          k \in DOMAIN globals_dict /\ globals_dict[k] = last.before[k]
    /\ NewNames \subseteq ListedUnbound
    /\ \A k \in {"get_weather", "send_email", "delete_files"} :
          k \notin DOMAIN last.before /\ k \notin ListedUnbound
              => k \notin DOMAIN globals_dict

Skipped == Len(last.available_tools) = 0 \/ ~last.callback_given

\* C30 (amended): when inject_tool_functions returns normally for a
\* non-empty tool list and a callback, the newly bound names are exactly
\* the names, hyphens replaced by underscores, of the listed tools that
\* were not bound before; when it raises they are some of them; in every
\* case no other key is added, changed or removed, and with an empty list
\* or no callback the namespace is left as it was.
C30_BindsListedNamesOnly ==
    Installed =>
        /\ OthersUntouched
        /\ Skipped => globals_dict = last.before
        /\ ~Skipped /\ last.out.kind = "return" => NewNames = ListedUnbound

\* two tools were listed, one of them bound by the guest already: the
\* other is the only new name
C30_Witness ==
    /\ Installed
    /\ last.out.kind = "return"
    /\ last.callback_given
    /\ last.available_tools = <<"get-weather", "send-email">>
    /\ "get_weather" \in DOMAIN last.before
    /\ last.before["get_weather"] = UserObject
    /\ NewNames = {"send_email"}
    /\ globals_dict["get_weather"] = UserObject

\* C30, as stated: after inject_tool_functions the newly bound names are
\* the names of the listed tools that were not bound before, nothing else
\* is added, changed or removed, and with an empty list or no callback
\* the namespace is unchanged.
C30_Original ==
    Installed =>
        /\ OthersUntouched
        /\ Skipped => globals_dict = last.before
        /\ ~Skipped => NewNames = ListedUnbound

\* the installation failed because a listed tool has no schema
SchemaMissingFor(tool_name) ==
    /\ Installed
    /\ last.out.kind = "raise"
    /\ last.out.exc.msg = <<"Schema missing for tool '", tool_name,
                            "' - cannot inject without schema">>

\* the place of a tool in the list of the last installation
PlaceOf(tool_name) ==
    CHOOSE i \in 1..Len(last.available_tools) : last.available_tools[i] = tool_name

\* the keys bound by the last installation to the tool of that name
BoundTo(tool_name) ==
    {k \in NewNames : globals_dict[k].kind = "tool"
                        /\ globals_dict[k].tool_name = tool_name}

\* C34: when inject_tool_functions fails because a listed tool has no
\* schema, the tools listed before it that were not bound before stay
\* bound in the namespace, and nothing is bound for the failing tool or
\* for a tool listed after it.
C34_InstallationNotAtomic ==
    \A tool_name \in GuestToolNames :
        SchemaMissingFor(tool_name) =>
            LET l == last.available_tools
                at == PlaceOf(tool_name)
            IN  /\ NewNames =
                      {Underscored(l[j]) : j \in 1..(at - 1)} \ DOMAIN last.before
                /\ \A k \in NewNames :
                      \E j \in 1..(at - 1) :
                          /\ k = Underscored(l[j])
                          /\ BoundTo(l[j]) = {k}
                /\ \A j \in at..Len(l) : BoundTo(l[j]) = {}

\* the second of two listed tools has no schema: the first stays bound
C34_Witness ==
    /\ SchemaMissingFor("send-email")
    /\ last.available_tools = <<"get-weather", "send-email">>
    /\ last.before = <<>>
    /\ DOMAIN globals_dict = {"get_weather"}
    /\ globals_dict["get_weather"].tool_name = "get-weather"

\* two listed tools with different names and the same identifier
Colliding(i, j) ==
    /\ i < j
    /\ last.available_tools[i] # last.available_tools[j]
    /\ Underscored(last.available_tools[i]) = Underscored(last.available_tools[j])

\* C33: when two listed tools have the same identifier and the identifier
\* was not bound before, an installation that returns binds it to the
\* tool listed first; the tool listed later is skipped without an error,
\* whether or not it has a schema, and no identifier is bound to it, so
\* guest code cannot call it.
C33_FirstOfCollidingNamesWins ==
    Installed /\ ~Skipped =>
        \A i, j \in 1..Len(last.available_tools) :
            Colliding(i, j) =>
                LET l == last.available_tools
                    name == Underscored(l[i])
                IN  /\ ~SchemaMissingFor(l[j])
                    /\ BoundTo(l[j]) = {}
                    /\ name \in DOMAIN last.before =>
                          globals_dict[name] = last.before[name]
                    /\ name \notin DOMAIN last.before /\ last.out.kind = "return" =>
                          /\ name \in DOMAIN globals_dict
                          /\ globals_dict[name].tool_name = l[i]

\* get-weather and get_weather are listed in this order and the later has
\* no schema: the installation returns with get_weather bound to the first
C33_Witness ==
    /\ Installed
    /\ last.out.kind = "return"
    /\ last.available_tools = <<"get-weather", "get_weather">>
    /\ last.before = <<>>
    /\ "get_weather" \notin DOMAIN last.tool_schemas.map
    /\ DOMAIN globals_dict = {"get_weather"}
    /\ globals_dict["get_weather"].tool_name = "get-weather"

(***************************************************************************)
(* Claims about replies of an unexpected action (checked under SpecCall).  *)
(***************************************************************************)
TheReply == last.done.result.value.value

\* the call was answered by a reply whose action is neither accept nor
\* decline
UnexpectedAction ==
    /\ Replied
    /\ "action" \in DOMAIN TheReply
    /\ TheReply.action \notin {"accept", "decline"}

NamesToolAnd(text) ==
    /\ last.done.out.kind = "raise"
    /\ last.done.out.exc.type = "RuntimeError"
    /\ IsInfix(<<last.tool_name>>, last.done.out.exc.msg)
    /\ IsInfix(text, last.done.out.exc.msg)

\* a guest call returns a value only for an accept whose result is JSON
ReturnsOnlyForAccept ==
    last.op = "call" /\ last.done.out.kind = "return" =>
        /\ Replied
        /\ "action" \in DOMAIN TheReply /\ "content" \in DOMAIN TheReply
        /\ TheReply.action = "accept"
        /\ "result" \in DOMAIN TheReply.content
        /\ TheReply.content["result"].ok

\* C35 (amended): a reply whose action is neither accept nor decline never
\* produces a return value: the guest call raises a RuntimeError naming
\* the tool, and the unexpected action when the reply has a content,
\* the missing content key when it has none; a guest call returns a value
\* only for an accept whose result decodes as JSON.
C35_UnexpectedActionNeverReturns ==
    /\ UnexpectedAction =>
          IF "content" \in DOMAIN TheReply
          THEN NamesToolAnd(<<"': unexpected action '", TheReply.action, "'">>)
          ELSE NamesToolAnd(<<"'content'">>)
    /\ ReturnsOnlyForAccept

\* a cancel with a content: the failure names the tool and the action
C35_Witness ==
    /\ UnexpectedAction
    /\ last.answer = ReplyCancel
    /\ last.tool_name = "get-weather"
    /\ NamesToolAnd(<<"MCP protocol error for tool '", "get-weather",
                      "': unexpected action '", "cancel", "'">>)

\* C35, as stated: such a reply makes the guest call raise a failure naming
\* the tool and the unexpected action, and a guest call returns a value
\* only for an accept whose result decodes as JSON.
C35_Original ==
    /\ UnexpectedAction =>
          NamesToolAnd(<<"': unexpected action '", TheReply.action, "'">>)
    /\ ReturnsOnlyForAccept

(***************************************************************************)
(* Claims about the log of the install step (checked under SpecInstall).   *)
(***************************************************************************)
Logged == last.op = "installed" /\ last.handler_given

\* the calls of the handler, in the order they were made
Calls == SelectSeq(last.result.events, LAMBDA e : e.event = "log")

\* the place of the first bar of a text, 0 if it has none
FirstBar(text) ==
    IF \E i \in 1..Len(text) : text[i] = "|"
    THEN CHOOSE i \in 1..Len(text) : text[i] = "|" /\ "|" \notin Range(SubSeq(text, 1, i - 1))
    ELSE 0

\* what the claim says is delivered for a text
DeliveryOf(text) ==
    IF FirstBar(text) = 0
    THEN [event |-> "log", level |-> <<"info">>, msg |-> text]
    ELSE [event |-> "log", level |-> SubSeq(text, 1, FirstBar(text) - 1),
          msg |-> SubSeq(text, FirstBar(text) + 1, Len(text))]

\* the text without the blanks at its ends
Trimmed(text) ==
    IF \A i \in 1..Len(text) : text[i] = " " THEN <<>>
    ELSE LET first == CHOOSE i \in 1..Len(text) :
                          text[i] # " " /\ \A j \in 1..(i - 1) : text[j] = " "
             end == CHOOSE i \in 1..Len(text) :
                        text[i] # " " /\ \A j \in (i + 1)..Len(text) : text[j] = " "
         IN  SubSeq(text, first, end)

\* every call of the handler is made before the process is waited for and
\* before the environment is yielded
CallsComeFirst ==
    \A i, j \in 1..Len(last.result.events) :
        last.result.events[i].event = "log" /\ last.result.events[j].event # "log"
            => i < j

\* C32 (amended): with a handler, each line the install process writes is
\* handed to it exactly once, in the order written and before the
\* environment is yielded, with the blanks at the ends of the line taken
\* off first: a line that then has a bar is handed over as the text
\* before its first bar and the text after it, a line without a bar as
\* level info and the line.
C32_EachLineDeliveredOnceInOrder ==
    Logged =>
        /\ Len(Calls) = Len(last.lines)
        /\ \A i \in 1..Len(last.lines) :
              Calls[i] = DeliveryOf(Trimmed(last.lines[i]))
        /\ CallsComeFirst

\* two lines, the first with a bar, the second indented and without one:
\* delivered in this order and then the environment is yielded
C32_Witness ==
    /\ Logged
    /\ last.lines = << <<"debug", "|">>, <<" ", "debug">> >>
    /\ Calls = << [event |-> "log", level |-> <<"debug">>, msg |-> <<>>],
                  [event |-> "log", level |-> <<"info">>, msg |-> <<"debug">>] >>
    /\ last.result.events[4].event = "yield"

\* C32, as stated: each line written is handed to the handler once, in
\* order, before the environment is yielded, split at its first bar, or
\* with level info when it has none.
C32_Original ==
    Logged =>
        /\ Len(Calls) = Len(last.lines)
        /\ \A i \in 1..Len(last.lines) :
              Calls[i] = DeliveryOf(last.lines[i])
        /\ CallsComeFirst

(***************************************************************************)
(* Claims about concurrent invocations (checked under SpecConcurrent).     *)
(***************************************************************************)
DoneInvocations == {i \in Invocations : callback.invocations[i].pc = "done"}

\* the tool call the message of the invocation asks for
AskedBy(i) == validate_python(json_loads(callback.invocations[i].message).value).value

\* C31: however the invocations of one callback interleave at their await
\* points, the outcome of each is the one the callback gives for its own
\* message and the registry when it runs alone; the tool it executed and
\* the tool_call_id it reports are those of its own message.
C31_InvocationsDoNotMix ==
    \A i \in DoneInvocations :
        LET inv == callback.invocations[i]
        IN  /\ inv.out = elicitation_callback(inv.message, callback.registry,
                                              inv.behaviour).out
            /\ "ran" \in DOMAIN inv =>
                  /\ inv.ran.tool_name = AskedBy(i).tool_name
                  /\ inv.ran.tool_call_id = AskedBy(i).tool_call_id

\* while one invocation waits for get-weather to be executed, another has
\* ended with the retry of its own tool, send-email, under its own id
C31_Witness ==
    /\ DoneInvocations = {2}
    /\ callback.invocations[1].pc = "handle_call"
    /\ callback.invocations[1].tool_call.tool_name = "get-weather"
    /\ "ran" \in DOMAIN callback.invocations[2]
    /\ callback.invocations[2].ran.tool_name = "send-email"
    /\ callback.invocations[2].ran.tool_call_id = "def456"
    /\ callback.invocations[2].out.value.action = "decline"
    /\ "retry" \in DOMAIN callback.invocations[2].out.value.content

====
